---- MODULE Spec2Model ----
(***************************************************************************)
(* Immobiliare.it scraper: the Detail Consumers (ImmobiliareWorker), the   *)
(* Verification Consumer (ImmobiliareVerifier) and the coordinator's       *)
(* enqueue, running as independent processes over the shared Work Queue    *)
(* (RedisQueue), the Durable Store (ScraperDatabase) and the downstream    *)
(* Core Service.  Every await of the TypeScript code is one atomic step.   *)
(* RedisQueue and ScraperDatabase are not among the repository's files:    *)
(* their operations are modelled from the specification's section 4.1 and  *)
(* section 3.                                                              *)
(***************************************************************************)
EXTENDS Integers, Sequences, FiniteSets, TLC

\* ------------------------------------------------------------ bounds
NumWorkers == 2        \* Detail Consumer processes
NumIds == 2            \* distinct listing identifiers
MaxPrice == 2          \* a listing's content takes the versions 1..MaxPrice
MaxDiscovered == 2     \* identifiers the coordinator adds in one behaviour
MaxOutages == 1        \* collaborator outages in one behaviour
MaxVerifierRuns == 1   \* runs of the verifier process
NumCities == 2         \* areas of ITALIAN_CITIES the coordinator visits
MaxPages == 3          \* maxPagesPerCity (main passes 5)
MaxFetches == 3        \* fetches of the listing the Change Detector is run on
MaxOps == 5            \* queue operations of one queue test
MaxLimit == 3          \* --limit takes the values 1..MaxLimit, or is not given
MaxPerPage == 2        \* properties parsed from one page

\* ------------------------------------------------- program constants
MaxAttempts == 3       \* retryCount < 3, requeueWithRetry(id, 3)
RateScale == 10000     \* change_rate NUMERIC(5,4)
HttpOk == 200          \* response.status === 200
HttpServerError == 500 \* validateStatus: status < 500
HttpNotFound == 404    \* validateStatus: don't throw on 404
HttpForbidden == 403   \* the portal's anti-bot block
HttpUnavailable == 503 \* a status >= 500: axios throws
NetworkError == 0      \* axios.head threw: no response

Workers == 1..NumWorkers
Ids == 1..NumIds
Prices == 1..MaxPrice
Cities == 1..NumCities
NoProperty == 0        \* fetchPropertyDetail returned null
ChecksumLength == 32   \* .toString('base64').substring(0, 32)
NoFingerprint == <<>>  \* no snapshot cached for the identifier
NoId == 0              \* popListingId timed out: null
NoLimit == 0           \* limit is undefined: if (limit && ...) is false

VARIABLES
  \* Work Queue (RedisQueue)
  pending,          \* pending list: copies of each identifier in it
  processed,        \* processed-dedup set
  failed,           \* failed set: identifier -> reason ("none" when absent)
  retry,            \* per-identifier retry counter
  fp,               \* cached fingerprint of the last stored snapshot
  lastSeen,         \* "none" | "fresh" | "stale" (older than the threshold)
  missingQ,         \* missing sub-queue: copies of each identifier in it
  verifiedInactive, \* verified-inactive set
  totalDiscovered,  \* stats: identifiers added by pushListingIds
  \* Durable Store (ScraperDatabase)
  snapshots,        \* property_snapshots: per identifier, the checksums stored
  meta,             \* property_metadata: per identifier, the row
  \* Core Service and configuration
  apiKey,           \* config.langomoApiKey is set
  coreIngest,       \* payloads POSTed to /properties/ingest, per identifier
  coreInactive,     \* inactive payloads POSTed, per identifier
  \* the catalog
  content,          \* the listing's current content version (its price)
  \* ImmobiliareWorker processes
  pc, cur, prop, changed, rc, cnt,
  eff,              \* calls made by the worker's current processListing
  fresh,            \* the current processListing started with no prior state
  markCount,        \* successful markProcessed calls per identifier
  \* ImmobiliareVerifier process
  vpc, vcur, vmissing, vstatus, vcnt, veff, vruns,
  \* the collaborators' availability
  down,             \* collaborators that are unreachable now
  outages,          \* outages begun so far
  \* ImmobiliareCoordinator process
  cpc,
  city,             \* scrapeAllCities: index of the area in ITALIAN_CITIES
  page,             \* scrapeCity: the page number
  allIds,           \* scrapeCity: identifiers collected for the area
  allCount,         \* scrapeCity: allIds.length
  fetched,          \* what scrapePage gave for each page of the area so far
  runStatus,        \* scrape_runs.status of the Run ("none": no row)
  runErrors,        \* scrape_runs.errors_count
  runDiscovered,    \* scrapeAllCities: totalDiscovered
  swallowed,        \* errors caught and swallowed during the pass
  tried,            \* areas whose scrapeCity was called
  \* the processes' ends
  wreleased,        \* the worker's close() released its connections
  wheld,            \* the worker exited inside processListing(cur)
  vreleased,        \* the verifier's close() released its connections
  vheld,            \* the verifier exited inside processVerification(vcur)
  creleased,        \* the coordinator's close() released its connections
  \* the Change Detector on its own (one listing, identifier 1)
  dpc,
  record,           \* the Property fetched last
  clock,            \* the time of the last fetch
  calls,            \* the hasPropertyChanged calls made so far
  \* the queue test (testQueue)
  qlog,             \* the pushListingId / popListingId calls made so far
  \* ImmobiliareScraper (the CLI's scraper)
  spc,
  limit,            \* scrapeCities: options.limit (0: none given)
  cityLimit,        \* scrapeCity: limit (0: undefined)
  scity,            \* scrapeCities: index of the city
  spage,            \* scrapeCity: the page number
  cityProps,        \* scrapeCity: allProperties.length
  allProps,         \* scrapeCities: allProperties.length
  returned,         \* scrapeCity: finalProperties.length of the call
  sfetches          \* scrapePage calls made so far

wqVars == <<pending, processed, failed, retry, fp, lastSeen, missingQ,
            verifiedInactive, totalDiscovered>>
dbVars == <<snapshots, meta>>
coreVars == <<apiKey, coreIngest, coreInactive>>
workerVars == <<pc, cur, prop, changed, rc, cnt, eff, fresh, markCount>>
verifierVars == <<vpc, vcur, vmissing, vstatus, vcnt, veff, vruns>>
envVars == <<content, down, outages>>
coordVars == <<cpc, city, page, allIds, allCount, fetched, runStatus, runErrors,
               runDiscovered, swallowed, tried>>
exitVars == <<wreleased, wheld, vreleased, vheld, creleased>>
detectorVars == <<dpc, record, clock, calls>>
queueTestVars == <<qlog>>
scraperVars == <<spc, limit, cityLimit, scity, spage, cityProps, allProps,
                 returned, sfetches>>
harnessVars == <<detectorVars, queueTestVars, scraperVars>>
vars == <<wqVars, dbVars, coreVars, envVars, workerVars, verifierVars,
          coordVars, exitVars, harnessVars>>


\* ------------------------------------------------ Work Queue (RedisQueue)
\* isProcessed(id)
IsProcessed(id) == id \in processed

\* pushListingIds(ids): the identifiers actually added, those neither in the
\* pending list nor in the processed-dedup set
NewlyAdded(ids) == {i \in ids : pending[i] = 0 /\ i \notin processed}

\* the Property parsePropertyDetail builds: of its fields the model keeps the
\* three the Change Detector looks at and scrapedAt (new Date() at each parse)
Property(price, title, description, scrapedAt) ==
  [price |-> price, title |-> title, description |-> description,
   scrapedAt |-> scrapedAt]

\* the Property parsed from a listing whose content is at a version: the
\* version is its price; the workers' model does not keep the time of a fetch
Listing(version) == Property(version, "Bilocale", "luminoso", 0)

\* mutant: the fingerprint is taken over the whole record
Fingerprint_WholeRecord(property) ==
  <<property.price, property.title, property.description, property.scrapedAt>>

\* the fingerprint of a record: computed only from price, title, description
Fingerprint(property) ==
  <<property.price, property.title, property.description>>

\* hasPropertyChanged(id, property): compares with the cached fingerprint; no
\* cached fingerprint counts as changed
HasPropertyChanged(id, property) == fp[id] # Fingerprint(property)

\* requeueWithRetry(id, maxAttempts): re-inserts only while the retry counter
\* is below maxAttempts, and counts the attempt
CanRequeue(id, maxAttempts) == retry[id] < maxAttempts

\* findMissingProperties(hours): last seen older than the threshold and not
\* already in the missing sub-queue
FindMissingProperties == {i \in Ids : lastSeen[i] = "stale" /\ missingQ[i] = 0}

\* mutant: remaining is what was discovered and is not yet processed
Remaining_Unprocessed == totalDiscovered - Cardinality(processed)

\* getStats().remaining / queueDepth: what is left in the pending list
Remaining == Cardinality({i \in Ids : pending[i] > 0})

\* ------------------------------------------ Durable Store (ScraperDatabase)
NoMeta == [exists |-> FALSE, scrape_count |-> 0, change_count |-> 0,
           change_rate |-> 0, current_status |-> "none", current_price |-> 0]

\* change_rate NUMERIC(5,4): change_count / scrape_count rounded to 4 decimals,
\* 0 when nothing was scraped
ChangeRate(changes, scrapes) ==
  IF scrapes = 0 THEN 0
  ELSE (2 * changes * RateScale + scrapes) \div (2 * scrapes)

ChangeIncrement(hasChanges) == IF hasChanges THEN 1 ELSE 0

\* mutant: a change is counted without counting the scrape
UpdatePropertyMetadata_NoScrape(row, status, price, hasChanges) ==
  LET scrapes == IF hasChanges THEN row.scrape_count ELSE row.scrape_count + 1
      changes == row.change_count + ChangeIncrement(hasChanges)
  IN [exists |-> TRUE, scrape_count |-> scrapes, change_count |-> changes,
      change_rate |-> ChangeRate(changes, scrapes),
      current_status |-> status, current_price |-> price]

\* updatePropertyMetadata(id, {lastSeen, currentStatus, currentPrice, hasChanges}):
\* upsert; scrape_count always increments, change_count only on a change
UpdatePropertyMetadata(row, status, price, hasChanges) ==
  LET scrapes == row.scrape_count + 1
      changes == row.change_count + ChangeIncrement(hasChanges)
  IN [exists |-> TRUE, scrape_count |-> scrapes, change_count |-> changes,
      change_rate |-> ChangeRate(changes, scrapes),
      current_status |-> status, current_price |-> price]

\* JSON.stringify({price, title, description}) of calculateChecksum
Stringify(property) ==
  "{\"price\":" \o ToString(property.price)
    \o ",\"title\":\"" \o property.title
    \o "\",\"description\":\"" \o property.description \o "\"}"

\* Buffer.from(data).toString('base64').substring(0, length): base64 writes
\* each 3 bytes as 4 characters, so the first 4n characters are the first 3n
\* bytes; the model keeps those bytes instead of their base64 spelling
Base64Prefix(data, length) ==
  LET bytes == (length \div 4) * 3
  IN SubSeq(data, 1, IF bytes < Len(data) THEN bytes ELSE Len(data))

\* calculateChecksum(property): the first ChecksumLength characters of the
\* base64 of the JSON of price, title, description
CalculateChecksum(property) == Base64Prefix(Stringify(property), ChecksumLength)

\* ------------------------------------------------------ collaborators
\* the Work Queue (Redis), the Durable Store (PostgreSQL), the Core Service and
\* the portal; a call to one that is down fails
Collaborators == {"queue", "db", "core", "portal"}
Up(c) == c \notin down

NoEffects == [sends |-> 0, caches |-> 0, stores |-> 0]
NoCounts == [processed |-> 0, failed |-> 0, changed |-> 0, unchanged |-> 0]
NoVerifierCounts == [verified |-> 0, active |-> 0, inactive |-> 0]
NoVerifierEffects == [marks |-> 0, notifies |-> 0, updates |-> 0]

\* -------------------------------------------------------------- Init
\* nothing was processed yet
InitNothingProcessed ==
  /\ processed = {}
  /\ failed = [i \in Ids |-> "none"]
  /\ retry = [i \in Ids |-> 0]
  /\ fp = [i \in Ids |-> NoFingerprint]
  /\ lastSeen = [i \in Ids |-> "none"]
  /\ missingQ = [i \in Ids |-> 0]
  /\ verifiedInactive = {}
  /\ snapshots = [i \in Ids |-> <<>>]
  /\ meta = [i \in Ids |-> NoMeta]
  /\ coreIngest = [i \in Ids |-> 0]
  /\ coreInactive = [i \in Ids |-> 0]
  /\ markCount = [i \in Ids |-> 0]

\* the Change Detector's own variables when it is not run on its own
DetectorIdle ==
  /\ dpc = "off"
  /\ record = Listing(1)
  /\ clock = 0
  /\ calls = <<>>

\* the queue test's own variable when the test is not run
QueueTestIdle == qlog = <<>>

\* the CLI scraper's own variables when it is not run
ScraperIdle ==
  /\ spc = "off"
  /\ limit = NoLimit
  /\ cityLimit = NoLimit
  /\ scity = 1
  /\ spage = 1
  /\ cityProps = 0
  /\ allProps = 0
  /\ returned = 0
  /\ sfetches = 0

HarnessIdle == DetectorIdle /\ QueueTestIdle /\ ScraperIdle

\* the processes after construction
InitPipeline ==
  /\ apiKey \in BOOLEAN
  /\ content = [i \in Ids |-> 1]
  /\ outages = 0
  /\ pc = [w \in Workers |-> "pop"]
  /\ cur = [w \in Workers |-> 1]
  /\ prop = [w \in Workers |-> NoProperty]
  /\ changed = [w \in Workers |-> FALSE]
  /\ rc = [w \in Workers |-> 0]
  /\ cnt = [w \in Workers |-> NoCounts]
  /\ eff = [w \in Workers |-> NoEffects]
  /\ fresh = [w \in Workers |-> FALSE]
  /\ vpc = "off"
  /\ vruns = 0
  /\ vcur = 1
  /\ vmissing = {}
  /\ vstatus = HttpOk
  /\ vcnt = NoVerifierCounts
  /\ veff = NoVerifierEffects
  /\ cpc = "off"
  /\ city = 1
  /\ page = 1
  /\ allIds = {}
  /\ allCount = 0
  /\ fetched = <<>>
  /\ runStatus = "none"
  /\ runErrors = 0
  /\ runDiscovered = 0
  /\ swallowed = 0
  /\ tried = {}
  /\ wreleased = [w \in Workers |-> FALSE]
  /\ wheld = [w \in Workers |-> FALSE]
  /\ vreleased = FALSE
  /\ vheld = FALSE
  /\ creleased = FALSE

InitProcesses == InitPipeline /\ HarnessIdle

InitCommon == InitNothingProcessed /\ InitProcesses

\* the queue is empty and at most one collaborator is unreachable from the start
InitDegraded ==
  /\ InitCommon
  /\ pending = [i \in Ids |-> 0]
  /\ totalDiscovered = 0
  /\ down \in {{}} \cup {{c} : c \in Collaborators}

\* the pending list is seeded with the K = NumIds unique identifiers and only
\* the workers run
InitSeeded ==
  /\ InitCommon
  /\ pending = [i \in Ids |-> 1]
  /\ totalDiscovered = NumIds
  /\ down = {}

\* ------------------------------------------------------- Core Service
\* mutant: the API key is not looked at
SendToCoreService_NoKeyCheck(id, inactive, thrown) ==
  IF ~Up("core")
  THEN /\ thrown
       /\ UNCHANGED <<coreIngest, coreInactive>>
  ELSE /\ ~thrown
       /\ coreIngest' = IF inactive THEN coreIngest
                        ELSE [coreIngest EXCEPT ![id] = @ + 1]
       /\ coreInactive' = IF inactive THEN [coreInactive EXCEPT ![id] = @ + 1]
                          ELSE coreInactive

\* sendToCoreService(payload): a no-op without the API key; otherwise one POST,
\* whose failure is rethrown.  thrown: whether the call threw.
SendToCoreService(id, inactive, thrown) ==
  IF ~apiKey
  THEN /\ ~thrown
       /\ UNCHANGED <<coreIngest, coreInactive>>
  ELSE IF ~Up("core")
  THEN /\ thrown
       /\ UNCHANGED <<coreIngest, coreInactive>>
  ELSE /\ ~thrown
       /\ coreIngest' = IF inactive THEN coreIngest
                        ELSE [coreIngest EXCEPT ![id] = @ + 1]
       /\ coreInactive' = IF inactive THEN [coreInactive EXCEPT ![id] = @ + 1]
                          ELSE coreInactive

\* ------------------------------------------------- ImmobiliareWorker
Goto(w, label) == pc' = [pc EXCEPT ![w] = label]

\* processListing returned, or its error left it: its locals are gone
EndAttempt(w) ==
  /\ Goto(w, "pop")
  /\ cur' = [cur EXCEPT ![w] = 1]
  /\ prop' = [prop EXCEPT ![w] = NoProperty]
  /\ changed' = [changed EXCEPT ![w] = FALSE]
  /\ rc' = [rc EXCEPT ![w] = 0]
  /\ eff' = [eff EXCEPT ![w] = NoEffects]
  /\ fresh' = [fresh EXCEPT ![w] = FALSE]

\* an await inside processListing's try block throws: control goes to its catch
Throw(w) ==
  /\ Goto(w, "getRetry")
  /\ UNCHANGED <<wqVars, dbVars, coreVars, envVars, verifierVars, coordVars, exitVars, harnessVars>>
  /\ UNCHANGED <<cur, prop, changed, rc, cnt, eff, fresh, markCount>>

\* start(): const id = await this.queue.popListingId(5)
PopListingId(w) ==
  /\ pc[w] = "pop"
  /\ Up("queue")
  /\ \E id \in Ids :
       /\ pending[id] > 0
       /\ pending' = [pending EXCEPT ![id] = @ - 1]
       /\ cur' = [cur EXCEPT ![w] = id]
  /\ Goto(w, "isProcessed")
  /\ UNCHANGED <<processed, failed, retry, fp, lastSeen, missingQ,
                 verifiedInactive, totalDiscovered>>
  /\ UNCHANGED <<dbVars, coreVars, envVars, verifierVars, coordVars, exitVars, harnessVars>>
  /\ UNCHANGED <<prop, changed, rc, cnt, eff, fresh, markCount>>

\* start(): the pop timed out and the stats report nothing remaining: break
PopTimeout(w) ==
  /\ pc[w] = "pop"
  /\ Up("queue")
  /\ Remaining = 0
  /\ Goto(w, "stopped")
  /\ UNCHANGED <<wqVars, dbVars, coreVars, envVars, verifierVars, coordVars, exitVars, harnessVars>>
  /\ UNCHANGED <<cur, prop, changed, rc, cnt, eff, fresh, markCount>>

\* mutant: the isProcessed check is missing
CheckProcessed_NoCheck(w) ==
  /\ pc[w] = "isProcessed"
  /\ IF ~Up("queue") THEN Throw(w)
     ELSE /\ Goto(w, "fetch")
          /\ fresh' = [fresh EXCEPT ![w] =
                         /\ fp[cur[w]] = NoFingerprint
                         /\ ~meta[cur[w]].exists
                         /\ snapshots[cur[w]] = <<>>]
          /\ UNCHANGED <<cur, prop, changed, rc, eff>>
          /\ UNCHANGED <<wqVars, dbVars, coreVars, envVars, verifierVars, coordVars, exitVars, harnessVars>>
          /\ UNCHANGED <<cnt, markCount>>

\* mutant: a skipped identifier is counted as processed
CheckProcessed_CountsSkipped(w) ==
  /\ pc[w] = "isProcessed"
  /\ IF ~Up("queue") THEN Throw(w)
     ELSE /\ IF IsProcessed(cur[w])
             THEN /\ EndAttempt(w)
                  /\ cnt' = [cnt EXCEPT ![w].processed = @ + 1]
             ELSE /\ Goto(w, "fetch")
                  /\ fresh' = [fresh EXCEPT ![w] =
                                 /\ fp[cur[w]] = NoFingerprint
                                 /\ ~meta[cur[w]].exists
                                 /\ snapshots[cur[w]] = <<>>]
                  /\ UNCHANGED <<cur, prop, changed, rc, eff, cnt>>
          /\ UNCHANGED <<wqVars, dbVars, coreVars, envVars, verifierVars, coordVars, exitVars, harnessVars>>
          /\ UNCHANGED markCount

\* processListing: the isProcessed check
CheckProcessed(w) ==
  /\ pc[w] = "isProcessed"
  /\ IF ~Up("queue") THEN Throw(w)
     ELSE /\ IF IsProcessed(cur[w])
             THEN EndAttempt(w)
             ELSE /\ Goto(w, "fetch")
                  /\ fresh' = [fresh EXCEPT ![w] =
                                 /\ fp[cur[w]] = NoFingerprint
                                 /\ ~meta[cur[w]].exists
                                 /\ snapshots[cur[w]] = <<>>]
                  /\ UNCHANGED <<cur, prop, changed, rc, eff>>
          /\ UNCHANGED <<wqVars, dbVars, coreVars, envVars, verifierVars, coordVars, exitVars, harnessVars>>
          /\ UNCHANGED <<cnt, markCount>>

\* fetchPropertyDetail: the parsed property, or null on any error
FetchPropertyDetail(w) ==
  /\ pc[w] = "fetch"
  /\ IF Up("portal")
     THEN /\ prop' = [prop EXCEPT ![w] = content[cur[w]]]
          /\ Goto(w, "hasChanged")
     ELSE /\ prop' = [prop EXCEPT ![w] = NoProperty]
          /\ Goto(w, "noData")
  /\ UNCHANGED <<wqVars, dbVars, coreVars, envVars, verifierVars, coordVars, exitVars, harnessVars>>
  /\ UNCHANGED <<cur, changed, rc, cnt, eff, fresh, markCount>>

\* processListing: if (!property) markFailed(id, 'No data returned'); failedCount++
NoData(w) ==
  /\ pc[w] = "noData"
  /\ IF ~Up("queue") THEN Throw(w)
     ELSE /\ failed' = [failed EXCEPT ![cur[w]] = "No data returned"]
          /\ cnt' = [cnt EXCEPT ![w].failed = @ + 1]
          /\ EndAttempt(w)
          /\ UNCHANGED <<pending, processed, retry, fp, lastSeen, missingQ,
                         verifiedInactive, totalDiscovered>>
          /\ UNCHANGED <<dbVars, coreVars, envVars, verifierVars, coordVars, exitVars, harnessVars, markCount>>

\* processListing: hasPropertyChanged, and the unchanged branch's counter
CheckChanged(w) ==
  /\ pc[w] = "hasChanged"
  /\ IF ~Up("queue") THEN Throw(w)
     ELSE /\ LET hasChanged == HasPropertyChanged(cur[w], Listing(prop[w]))
             IN /\ changed' = [changed EXCEPT ![w] = hasChanged]
                /\ IF hasChanged
                   THEN Goto(w, "send") /\ UNCHANGED cnt
                   ELSE /\ Goto(w, "markProcessed")
                        /\ cnt' = [cnt EXCEPT ![w].unchanged = @ + 1]
          /\ UNCHANGED <<wqVars, dbVars, coreVars, envVars, verifierVars, coordVars, exitVars, harnessVars>>
          /\ UNCHANGED <<cur, prop, rc, eff, fresh, markCount>>

\* mutant: the fingerprint is cached before the payload is sent
Send_CachesFirst(w) ==
  /\ pc[w] = "send"
  /\ \E thrown \in BOOLEAN :
       /\ SendToCoreService(cur[w], FALSE, thrown)
       /\ Goto(w, IF thrown THEN "getRetry" ELSE "cache")
  /\ eff' = [eff EXCEPT ![w].sends = @ + 1]
  /\ fp' = [fp EXCEPT ![cur[w]] = Fingerprint(Listing(prop[w]))]
  /\ UNCHANGED <<pending, processed, failed, retry, lastSeen, missingQ,
                 verifiedInactive, totalDiscovered>>
  /\ UNCHANGED <<dbVars, apiKey, envVars, verifierVars, coordVars, exitVars, harnessVars>>
  /\ UNCHANGED <<cur, prop, changed, rc, cnt, fresh, markCount>>

\* processListing: createIngestionPayload, sendToCoreService
Send(w) ==
  /\ pc[w] = "send"
  /\ \E thrown \in BOOLEAN :
       /\ SendToCoreService(cur[w], FALSE, thrown)
       /\ Goto(w, IF thrown THEN "getRetry" ELSE "cache")
  /\ eff' = [eff EXCEPT ![w].sends = @ + 1]
  /\ UNCHANGED <<wqVars, dbVars, apiKey, envVars, verifierVars, coordVars, exitVars, harnessVars>>
  /\ UNCHANGED <<cur, prop, changed, rc, cnt, fresh, markCount>>

\* processListing: queue.storePropertySnapshot
StorePropertySnapshot(w) ==
  /\ pc[w] = "cache"
  /\ IF ~Up("queue") THEN Throw(w)
     ELSE /\ fp' = [fp EXCEPT ![cur[w]] = Fingerprint(Listing(prop[w]))]
          /\ eff' = [eff EXCEPT ![w].caches = @ + 1]
          /\ Goto(w, "store")
          /\ UNCHANGED <<pending, processed, failed, retry, lastSeen, missingQ,
                         verifiedInactive, totalDiscovered>>
          /\ UNCHANGED <<dbVars, coreVars, envVars, verifierVars, coordVars, exitVars, harnessVars>>
          /\ UNCHANGED <<cur, prop, changed, rc, cnt, fresh, markCount>>

\* processListing: calculateChecksum, db.storeSnapshot, changedCount++
StoreSnapshot(w) ==
  /\ pc[w] = "store"
  /\ IF ~Up("db") THEN Throw(w)
     ELSE /\ snapshots' = [snapshots EXCEPT ![cur[w]] =
                             Append(@, CalculateChecksum(Listing(prop[w])))]
          /\ eff' = [eff EXCEPT ![w].stores = @ + 1]
          /\ cnt' = [cnt EXCEPT ![w].changed = @ + 1]
          /\ Goto(w, "markProcessed")
          /\ UNCHANGED <<wqVars, meta, coreVars, envVars, verifierVars, coordVars, exitVars, harnessVars>>
          /\ UNCHANGED <<cur, prop, changed, rc, fresh, markCount>>

\* processListing: queue.markProcessed
MarkProcessed(w) ==
  /\ pc[w] = "markProcessed"
  /\ IF ~Up("queue") THEN Throw(w)
     ELSE /\ processed' = processed \cup {cur[w]}
          /\ markCount' = [markCount EXCEPT ![cur[w]] = @ + 1]
          /\ Goto(w, "updateLastSeen")
          /\ UNCHANGED <<pending, failed, retry, fp, lastSeen, missingQ,
                         verifiedInactive, totalDiscovered>>
          /\ UNCHANGED <<dbVars, coreVars, envVars, verifierVars, coordVars, exitVars, harnessVars>>
          /\ UNCHANGED <<cur, prop, changed, rc, cnt, eff, fresh>>

\* processListing: queue.updateLastSeen
UpdateLastSeen(w) ==
  /\ pc[w] = "updateLastSeen"
  /\ IF ~Up("queue") THEN Throw(w)
     ELSE /\ lastSeen' = [lastSeen EXCEPT ![cur[w]] = "fresh"]
          /\ Goto(w, "updateMeta")
          /\ UNCHANGED <<pending, processed, failed, retry, fp, missingQ,
                         verifiedInactive, totalDiscovered>>
          /\ UNCHANGED <<dbVars, coreVars, envVars, verifierVars, coordVars, exitVars, harnessVars>>
          /\ UNCHANGED <<cur, prop, changed, rc, cnt, eff, fresh, markCount>>

\* mutant: hasChanges is passed as false / as true whatever was detected
UpdateMetadata_NeverChanged(w) ==
  /\ pc[w] = "updateMeta"
  /\ IF ~Up("db") THEN Throw(w)
     ELSE /\ meta' = [meta EXCEPT ![cur[w]] =
                        UpdatePropertyMetadata(@, "active", prop[w], FALSE)]
          /\ cnt' = [cnt EXCEPT ![w].processed = @ + 1]
          /\ EndAttempt(w)
          /\ UNCHANGED <<wqVars, snapshots, coreVars, envVars, verifierVars, coordVars, exitVars, harnessVars>>
          /\ UNCHANGED markCount

UpdateMetadata_AlwaysChanged(w) ==
  /\ pc[w] = "updateMeta"
  /\ IF ~Up("db") THEN Throw(w)
     ELSE /\ meta' = [meta EXCEPT ![cur[w]] =
                        UpdatePropertyMetadata(@, "active", prop[w], TRUE)]
          /\ cnt' = [cnt EXCEPT ![w].processed = @ + 1]
          /\ EndAttempt(w)
          /\ UNCHANGED <<wqVars, snapshots, coreVars, envVars, verifierVars, coordVars, exitVars, harnessVars>>
          /\ UNCHANGED markCount

\* processListing: db.updatePropertyMetadata, processedCount++, return true
UpdateMetadata(w) ==
  /\ pc[w] = "updateMeta"
  /\ IF ~Up("db") THEN Throw(w)
     ELSE /\ meta' = [meta EXCEPT ![cur[w]] =
                        UpdatePropertyMetadata(@, "active", prop[w], changed[w])]
          /\ cnt' = [cnt EXCEPT ![w].processed = @ + 1]
          /\ EndAttempt(w)
          /\ UNCHANGED <<wqVars, snapshots, coreVars, envVars, verifierVars, coordVars, exitVars, harnessVars>>
          /\ UNCHANGED markCount

\* mutant: an error that leaves processListing ends the worker's loop
Escape_StopsLoop(w) ==
  /\ Goto(w, "stopped")
  /\ UNCHANGED <<cur, prop, changed, rc, eff, fresh>>
  /\ UNCHANGED <<wqVars, dbVars, coreVars, envVars, verifierVars, coordVars, exitVars, harnessVars>>
  /\ UNCHANGED <<cnt, markCount>>

\* start()'s catch: an error left processListing's own catch block
Escape(w) ==
  /\ EndAttempt(w)
  /\ UNCHANGED <<wqVars, dbVars, coreVars, envVars, verifierVars, coordVars, exitVars, harnessVars>>
  /\ UNCHANGED <<cnt, markCount>>

\* processListing's catch: getRetryCount, then the branch on retryCount < 3
GetRetryCount(w) ==
  /\ pc[w] = "getRetry"
  /\ IF ~Up("queue") THEN Escape(w)
     ELSE /\ rc' = [rc EXCEPT ![w] = retry[cur[w]]]
          /\ Goto(w, IF retry[cur[w]] < MaxAttempts THEN "requeue" ELSE "markFailed")
          /\ UNCHANGED <<wqVars, dbVars, coreVars, envVars, verifierVars, coordVars, exitVars, harnessVars>>
          /\ UNCHANGED <<cur, prop, changed, cnt, eff, fresh, markCount>>

\* processListing's catch: requeueWithRetry(id, 3), return false
Requeue(w) ==
  /\ pc[w] = "requeue"
  /\ IF ~Up("queue") THEN Escape(w)
     ELSE /\ IF CanRequeue(cur[w], MaxAttempts)
             THEN /\ retry' = [retry EXCEPT ![cur[w]] = @ + 1]
                  /\ pending' = [pending EXCEPT ![cur[w]] = @ + 1]
             ELSE UNCHANGED <<retry, pending>>
          /\ EndAttempt(w)
          /\ UNCHANGED <<processed, failed, fp, lastSeen, missingQ,
                         verifiedInactive, totalDiscovered>>
          /\ UNCHANGED <<dbVars, coreVars, envVars, verifierVars, coordVars, exitVars, harnessVars>>
          /\ UNCHANGED <<cnt, markCount>>

\* processListing's catch: markFailed(id, String(error)), failedCount++, return false
MarkFailed(w) ==
  /\ pc[w] = "markFailed"
  /\ IF ~Up("queue") THEN Escape(w)
     ELSE /\ failed' = [failed EXCEPT ![cur[w]] = "error"]
          /\ cnt' = [cnt EXCEPT ![w].failed = @ + 1]
          /\ EndAttempt(w)
          /\ UNCHANGED <<pending, processed, retry, fp, lastSeen, missingQ,
                         verifiedInactive, totalDiscovered>>
          /\ UNCHANGED <<dbVars, coreVars, envVars, verifierVars, coordVars, exitVars, harnessVars, markCount>>

WorkerStep(w) ==
  \/ PopListingId(w)
  \/ PopTimeout(w)
  \/ CheckProcessed(w)
  \/ FetchPropertyDetail(w)
  \/ NoData(w)
  \/ CheckChanged(w)
  \/ Send(w)
  \/ StorePropertySnapshot(w)
  \/ StoreSnapshot(w)
  \/ MarkProcessed(w)
  \/ UpdateLastSeen(w)
  \/ UpdateMetadata(w)
  \/ GetRetryCount(w)
  \/ Requeue(w)
  \/ MarkFailed(w)

\* ------------------------------------------------------ environment
\* a collaborator becomes unreachable, and reachable again
Outage(c) ==
  /\ c \notin down
  /\ outages < MaxOutages
  /\ down' = down \cup {c}
  /\ outages' = outages + 1
  /\ UNCHANGED <<wqVars, dbVars, coreVars, content, workerVars, verifierVars, coordVars, exitVars, harnessVars>>

Recover(c) ==
  /\ c \in down
  /\ down' = down \ {c}
  /\ UNCHANGED <<wqVars, dbVars, coreVars, content, outages, workerVars, verifierVars, coordVars, exitVars, harnessVars>>

\* a listing's content (its price) changes on the portal
ContentChanges(id) ==
  /\ content[id] < MaxPrice
  /\ content' = [content EXCEPT ![id] = @ + 1]
  /\ UNCHANGED <<wqVars, dbVars, coreVars, down, outages, workerVars, verifierVars, coordVars, exitVars, harnessVars>>

NextSeeded ==
  \/ \E w \in Workers : WorkerStep(w)
  \/ \E c \in Collaborators : Outage(c) \/ Recover(c)

SpecSeeded == InitSeeded /\ [][NextSeeded]_vars

\* the same, where each worker's loop keeps running and a collaborator that
\* became unreachable comes back
FairSeeded ==
  /\ SpecSeeded
  /\ \A w \in Workers : WF_vars(WorkerStep(w))
  /\ \A c \in Collaborators : WF_vars(Recover(c))


\* ---------------------------------------------- ImmobiliareCoordinator
\* mutant: every identifier handed over is appended to the pending list
PushListingIds_AddsCopies(ids) ==
  /\ Up("queue")
  /\ totalDiscovered + Cardinality(ids) <= MaxDiscovered
  /\ pending' = [i \in Ids |-> IF i \in ids THEN pending[i] + 1 ELSE pending[i]]
  /\ totalDiscovered' = totalDiscovered + Cardinality(ids)
  /\ UNCHANGED <<processed, failed, retry, fp, lastSeen, missingQ, verifiedInactive>>
  /\ UNCHANGED <<dbVars, coreVars, envVars, workerVars, verifierVars, coordVars, exitVars, harnessVars>>

\* scrapeCity: if (allIds.length > 0) await this.queue.pushListingIds(allIds)
PushListingIds(ids) ==
  /\ Up("queue")
  /\ totalDiscovered + Cardinality(NewlyAdded(ids)) <= MaxDiscovered
  /\ pending' = [i \in Ids |-> IF i \in NewlyAdded(ids) THEN 1 ELSE pending[i]]
  /\ totalDiscovered' = totalDiscovered + Cardinality(NewlyAdded(ids))
  /\ UNCHANGED <<processed, failed, retry, fp, lastSeen, missingQ, verifiedInactive>>
  /\ UNCHANGED <<dbVars, coreVars, envVars, workerVars, verifierVars, coordVars, exitVars, harnessVars>>

\* ------------------------------------------------ ImmobiliareVerifier
\* verifyProperty: exists iff the HEAD request answers 200; an axios error
\* (no response, or a status >= 500) counts as exists
VerifyProperty(status) ==
  IF status = NetworkError \/ status >= HttpServerError THEN TRUE
  ELSE status = HttpOk

\* what the portal answers to the HEAD request
ProbeAnswers ==
  IF Up("portal") THEN {HttpOk, HttpForbidden, HttpNotFound, HttpUnavailable}
  ELSE {NetworkError}

\* processVerification returned: its locals are gone
EndVerification ==
  /\ vpc' = "vpop"
  /\ vcur' = 1
  /\ vstatus' = HttpOk
  /\ veff' = NoVerifierEffects
  /\ UNCHANGED <<vmissing, vruns>>

\* processVerification's catch: the error is logged
Swallow ==
  /\ EndVerification
  /\ UNCHANGED <<wqVars, dbVars, coreVars, envVars, workerVars, coordVars, exitVars, harnessVars, vcnt>>

\* main(): a verifier process starts
VerifierStarts ==
  /\ vpc \in {"off", "stopped"}
  /\ vruns < MaxVerifierRuns
  /\ vpc' = "start"
  /\ vruns' = vruns + 1
  /\ vcnt' = NoVerifierCounts
  /\ UNCHANGED <<wqVars, dbVars, coreVars, envVars, workerVars, coordVars, exitVars, harnessVars>>
  /\ UNCHANGED <<vcur, vmissing, vstatus, veff>>

\* queueMissingProperties: findMissingProperties(24); an error leaves start()
\* and is fatal in main()
FindMissing ==
  /\ vpc = "start"
  /\ IF ~Up("queue")
     THEN vpc' = "fatal" /\ UNCHANGED vmissing
     ELSE /\ vmissing' = FindMissingProperties
          /\ vpc' = IF FindMissingProperties = {} THEN "vpop" ELSE "pushMissing"
  /\ UNCHANGED <<wqVars, dbVars, coreVars, envVars, workerVars, coordVars, exitVars, harnessVars>>
  /\ UNCHANGED <<vcur, vstatus, vcnt, veff, vruns>>

\* queueMissingProperties: pushToMissingQueue(missingIds)
PushToMissingQueue ==
  /\ vpc = "pushMissing"
  /\ IF ~Up("queue")
     THEN vpc' = "fatal" /\ UNCHANGED missingQ
     ELSE /\ missingQ' = [i \in Ids |-> IF i \in vmissing THEN missingQ[i] + 1
                                        ELSE missingQ[i]]
          /\ vpc' = "vpop"
  /\ vmissing' = {}
  /\ UNCHANGED <<pending, processed, failed, retry, fp, lastSeen,
                 verifiedInactive, totalDiscovered>>
  /\ UNCHANGED <<dbVars, coreVars, envVars, workerVars, coordVars, exitVars, harnessVars>>
  /\ UNCHANGED <<vcur, vstatus, vcnt, veff, vruns>>

\* start(): const id = await this.queue.popFromMissingQueue(5)
PopFromMissingQueue ==
  /\ vpc = "vpop"
  /\ Up("queue")
  /\ \E id \in Ids :
       /\ missingQ[id] > 0
       /\ missingQ' = [missingQ EXCEPT ![id] = @ - 1]
       /\ vcur' = id
  /\ vpc' = "probe"
  /\ UNCHANGED <<pending, processed, failed, retry, fp, lastSeen,
                 verifiedInactive, totalDiscovered>>
  /\ UNCHANGED <<dbVars, coreVars, envVars, workerVars, coordVars, exitVars, harnessVars>>
  /\ UNCHANGED <<vmissing, vstatus, vcnt, veff, vruns>>

\* start(): the pop timed out and getMissingQueueDepth() is 0: break
MissingQueueEmpty ==
  /\ vpc = "vpop"
  /\ Up("queue")
  /\ \A i \in Ids : missingQ[i] = 0
  /\ vpc' = "stopped"
  /\ UNCHANGED <<wqVars, dbVars, coreVars, envVars, workerVars, coordVars, exitVars, harnessVars>>
  /\ UNCHANGED <<vcur, vmissing, vstatus, vcnt, veff, vruns>>

\* processVerification: const exists = await this.verifyProperty(id)
Probe ==
  /\ vpc = "probe"
  /\ \E status \in ProbeAnswers :
       /\ vstatus' = status
       /\ vpc' = IF VerifyProperty(status) THEN "vUpdateLastSeen" ELSE "vMarkInactive"
  /\ UNCHANGED <<wqVars, dbVars, coreVars, envVars, workerVars, coordVars, exitVars, harnessVars>>
  /\ UNCHANGED <<vcur, vmissing, vcnt, veff, vruns>>

\* mutant: a listing found still active is put back into the missing queue
StillActive_QueuesAgain ==
  /\ vpc = "vUpdateLastSeen"
  /\ IF ~Up("queue") THEN Swallow
     ELSE /\ lastSeen' = [lastSeen EXCEPT ![vcur] = "fresh"]
          /\ missingQ' = [missingQ EXCEPT ![vcur] = 1]
          /\ vcnt' = [vcnt EXCEPT !.active = @ + 1, !.verified = @ + 1]
          /\ EndVerification
          /\ UNCHANGED <<pending, processed, failed, retry, fp,
                         verifiedInactive, totalDiscovered>>
          /\ UNCHANGED <<dbVars, coreVars, envVars, workerVars, coordVars,
                         exitVars, harnessVars>>

\* mutant: the still-active branch also writes the metadata row
StillActive_UpdatesMetadata ==
  /\ vpc = "vUpdateLastSeen"
  /\ IF ~Up("queue") THEN Swallow
     ELSE /\ lastSeen' = [lastSeen EXCEPT ![vcur] = "fresh"]
          /\ meta' = [meta EXCEPT ![vcur] =
                        UpdatePropertyMetadata(@, "active", @.current_price, FALSE)]
          /\ vcnt' = [vcnt EXCEPT !.active = @ + 1, !.verified = @ + 1]
          /\ EndVerification
          /\ UNCHANGED <<pending, processed, failed, retry, fp, missingQ,
                         verifiedInactive, totalDiscovered>>
          /\ UNCHANGED <<snapshots, coreVars, envVars, workerVars, coordVars,
                         exitVars, harnessVars>>

\* processVerification: updateLastSeen, activeCount++, verifiedCount++
StillActive ==
  /\ vpc = "vUpdateLastSeen"
  /\ IF ~Up("queue") THEN Swallow
     ELSE /\ lastSeen' = [lastSeen EXCEPT ![vcur] = "fresh"]
          /\ vcnt' = [vcnt EXCEPT !.active = @ + 1, !.verified = @ + 1]
          /\ EndVerification
          /\ UNCHANGED <<pending, processed, failed, retry, fp, missingQ,
                         verifiedInactive, totalDiscovered>>
          /\ UNCHANGED <<dbVars, coreVars, envVars, workerVars, coordVars, exitVars, harnessVars>>

\* mutant: a failed markVerifiedInactive is ignored and the branch goes on
MarkVerifiedInactive_IgnoresFailure ==
  /\ vpc = "vMarkInactive"
  /\ IF ~Up("queue")
     THEN UNCHANGED <<verifiedInactive, veff>>
     ELSE /\ verifiedInactive' = verifiedInactive \cup {vcur}
          /\ veff' = [veff EXCEPT !.marks = @ + 1]
  /\ vpc' = "vNotify"
  /\ UNCHANGED <<pending, processed, failed, retry, fp, lastSeen,
                 missingQ, totalDiscovered>>
  /\ UNCHANGED <<dbVars, coreVars, envVars, workerVars, coordVars, exitVars, harnessVars>>
  /\ UNCHANGED <<vcur, vmissing, vstatus, vcnt, vruns>>

\* processVerification: queue.markVerifiedInactive
MarkVerifiedInactive ==
  /\ vpc = "vMarkInactive"
  /\ IF ~Up("queue") THEN Swallow
     ELSE /\ verifiedInactive' = verifiedInactive \cup {vcur}
          /\ veff' = [veff EXCEPT !.marks = @ + 1]
          /\ vpc' = "vNotify"
          /\ UNCHANGED <<pending, processed, failed, retry, fp, lastSeen,
                         missingQ, totalDiscovered>>
          /\ UNCHANGED <<dbVars, coreVars, envVars, workerVars, coordVars, exitVars, harnessVars>>
          /\ UNCHANGED <<vcur, vmissing, vstatus, vcnt, vruns>>

\* mutant: the Core Service is not told
MarkPropertyInactive_Skipped ==
  /\ vpc = "vNotify"
  /\ vpc' = "vUpdateMeta"
  /\ UNCHANGED <<wqVars, dbVars, coreVars, envVars, workerVars, coordVars, exitVars, harnessVars>>
  /\ UNCHANGED <<vcur, vmissing, vstatus, vcnt, veff, vruns>>

\* processVerification: markPropertyInactive(id, 'verified_removed')
MarkPropertyInactive ==
  /\ vpc = "vNotify"
  /\ \E thrown \in BOOLEAN :
       /\ SendToCoreService(vcur, TRUE, thrown)
       /\ IF thrown
          THEN EndVerification
          ELSE /\ veff' = [veff EXCEPT !.notifies = @ + 1]
               /\ vpc' = "vUpdateMeta"
               /\ UNCHANGED <<vcur, vmissing, vstatus, vruns>>
  /\ UNCHANGED <<wqVars, dbVars, apiKey, envVars, workerVars, coordVars, exitVars, harnessVars, vcnt>>

\* processVerification: db.updatePropertyMetadata(inactive, price null),
\* inactiveCount++, verifiedCount++
VerifierUpdateMetadata ==
  /\ vpc = "vUpdateMeta"
  /\ IF ~Up("db") THEN Swallow
     ELSE /\ meta' = [meta EXCEPT ![vcur] =
                        UpdatePropertyMetadata(@, "inactive", NoProperty, FALSE)]
          /\ vcnt' = [vcnt EXCEPT !.inactive = @ + 1, !.verified = @ + 1]
          /\ EndVerification
          /\ UNCHANGED <<wqVars, snapshots, coreVars, envVars, workerVars, coordVars, exitVars, harnessVars>>

VerifierStep ==
  \/ VerifierStarts
  \/ FindMissing
  \/ PushToMissingQueue
  \/ PopFromMissingQueue
  \/ MissingQueueEmpty
  \/ Probe
  \/ StillActive
  \/ MarkVerifiedInactive
  \/ MarkPropertyInactive
  \/ VerifierUpdateMetadata

\* time passes: an identifier's last-seen becomes older than the threshold
Ages(id) ==
  /\ lastSeen[id] = "fresh"
  /\ lastSeen' = [lastSeen EXCEPT ![id] = "stale"]
  /\ UNCHANGED <<pending, processed, failed, retry, fp, missingQ,
                 verifiedInactive, totalDiscovered>>
  /\ UNCHANGED <<dbVars, coreVars, envVars, workerVars, verifierVars, coordVars, exitVars, harnessVars>>

\* the workers and a coordinator that keeps discovering identifiers
NextDuplicates ==
  \/ \E w \in Workers : WorkerStep(w)
  \/ \E ids \in (SUBSET Ids) \ {{}} : PushListingIds(ids)
  \/ \E id \in Ids : ContentChanges(id)

SpecDuplicates == InitDegraded /\ [][NextDuplicates]_vars

\* the workers, the coordinator and the verifier while time passes
NextVerifier ==
  \/ \E w \in Workers : WorkerStep(w)
  \/ \E ids \in (SUBSET Ids) \ {{}} : PushListingIds(ids)
  \/ VerifierStep
  \/ \E id \in Ids : Ages(id)

SpecVerifier == InitDegraded /\ [][NextVerifier]_vars

\* a later day: every identifier was processed by a worker (fingerprint,
\* snapshot, metadata row, ingest) and has not been seen since
InitStale ==
  /\ InitProcesses
  /\ pending = [i \in Ids |-> 0]
  /\ totalDiscovered = NumIds
  /\ down = {}
  /\ processed = Ids
  /\ failed = [i \in Ids |-> "none"]
  /\ retry = [i \in Ids |-> 0]
  /\ fp = [i \in Ids |-> Fingerprint(Listing(content[i]))]
  /\ lastSeen = [i \in Ids |-> "stale"]
  /\ missingQ = [i \in Ids |-> 0]
  /\ verifiedInactive = {}
  /\ snapshots = [i \in Ids |-> <<CalculateChecksum(Listing(content[i]))>>]
  /\ meta = [i \in Ids |->
              UpdatePropertyMetadata(NoMeta, "active", content[i], TRUE)]
  /\ coreIngest = [i \in Ids |-> IF apiKey THEN 1 ELSE 0]
  /\ coreInactive = [i \in Ids |-> 0]
  /\ markCount = [i \in Ids |-> 1]

\* the verifier alone, while collaborators fail and come back
NextVerification ==
  \/ VerifierStep
  \/ \E c \in Collaborators : Outage(c) \/ Recover(c)

SpecVerification == InitStale /\ [][NextVerification]_vars

\* the same, where the verifier's process keeps running and a collaborator
\* that became unreachable comes back
FairVerification ==
  /\ SpecVerification
  /\ WF_vars(VerifierStep)
  /\ \A c \in Collaborators : WF_vars(Recover(c))

\* the verifier is run periodically: how many runs are followed
MaxRepeatedRuns == 2

\* main(): the verifier process is started again after an earlier run ended
VerifierStartsAgain ==
  /\ vpc = "stopped"
  /\ vruns < MaxRepeatedRuns
  /\ vpc' = "start"
  /\ vruns' = vruns + 1
  /\ vcnt' = NoVerifierCounts
  /\ UNCHANGED <<wqVars, dbVars, coreVars, envVars, workerVars, coordVars, exitVars, harnessVars>>
  /\ UNCHANGED <<vcur, vmissing, vstatus, veff>>

\* the verifier run after run, while collaborators fail and come back
NextReverification ==
  \/ VerifierStep
  \/ VerifierStartsAgain
  \/ \E c \in Collaborators : Outage(c) \/ Recover(c)

SpecReverification == InitStale /\ [][NextReverification]_vars

\* ------------------------------------- ImmobiliareCoordinator, in detail
\* scrapePage: the identifiers captured on the page, or an error (navigation
\* failure, DataDome challenge)
PageError == [ok |-> FALSE, ids |-> {}]
PageResults ==
  IF Up("portal")
  THEN {PageError} \cup {[ok |-> TRUE, ids |-> ids] : ids \in SUBSET Ids}
  ELSE {PageError}

\* scrapeAllCities: the for loop over ITALIAN_CITIES reaches the area next;
\* scrapeCity starts with an empty allIds at page 1
NextCity(next) ==
  /\ city' = next
  /\ page' = 1
  /\ allIds' = {}
  /\ allCount' = 0
  /\ fetched' = <<>>
  /\ IF next \in Cities
     THEN cpc' = "page" /\ tried' = tried \cup {next}
     ELSE cpc' = "complete" /\ UNCHANGED tried

\* process.exit: the process is gone
CoordinatorExits ==
  /\ cpc' = "exited"
  /\ UNCHANGED <<city, page, allIds, allCount, fetched, runStatus, runErrors,
                 runDiscovered, swallowed, tried>>

\* main() is run
CoordinatorStarts ==
  /\ cpc = "off"
  /\ cpc' = "init"
  /\ UNCHANGED <<city, page, allIds, allCount, fetched, runStatus, runErrors,
                 runDiscovered, swallowed, tried>>
  /\ UNCHANGED <<wqVars, dbVars, coreVars, envVars, workerVars, verifierVars, exitVars, harnessVars>>

\* main(): coordinator.initialize(); an error is fatal: process.exit(1) in
\* the catch block
CoordinatorInitialize ==
  /\ cpc = "init"
  /\ IF Up("queue") /\ Up("db")
     THEN /\ cpc' = "startRun"
          /\ UNCHANGED <<city, page, allIds, allCount, fetched, runStatus,
                         runErrors, runDiscovered, swallowed, tried>>
     ELSE CoordinatorExits
  /\ UNCHANGED <<wqVars, dbVars, coreVars, envVars, workerVars, verifierVars, exitVars, harnessVars>>

\* scrapeAllCities: db.startScrapeRun('city'), outside the try block
StartScrapeRun ==
  /\ cpc = "startRun"
  /\ IF Up("db")
     THEN /\ runStatus' = "running"
          /\ runErrors' = 0
          /\ runDiscovered' = 0
          /\ swallowed' = 0
          /\ NextCity(1)
     ELSE CoordinatorExits
  /\ UNCHANGED <<wqVars, dbVars, coreVars, envVars, workerVars, verifierVars, exitVars, harnessVars>>

\* mutant: a page error ends the whole pass
ScrapePage_ErrorAborts ==
  /\ cpc = "page"
  /\ \E result \in PageResults :
       /\ fetched' = Append(fetched, result)
       /\ IF ~result.ok
          THEN \* catch: logged, break
               /\ swallowed' = swallowed + 1
               /\ cpc' = "complete"
               /\ UNCHANGED <<page, allIds, allCount>>
          ELSE IF result.ids = {}
          THEN \* ids.length === 0: break
               /\ cpc' = "enqueue"
               /\ UNCHANGED <<page, allIds, allCount, swallowed>>
          ELSE /\ allIds' = allIds \cup result.ids
               /\ allCount' = allCount + Cardinality(result.ids)
               /\ page' = page + 1
               /\ cpc' = IF page < MaxPages THEN "page" ELSE "enqueue"
               /\ UNCHANGED swallowed
  /\ UNCHANGED <<city, runStatus, runErrors, runDiscovered, tried>>
  /\ UNCHANGED <<wqVars, dbVars, coreVars, envVars, workerVars, verifierVars, exitVars, harnessVars>>

\* mutant: an empty page does not end the pagination
ScrapePage_IgnoresEmptyPage ==
  /\ cpc = "page"
  /\ \E result \in PageResults :
       /\ fetched' = Append(fetched, result)
       /\ IF ~result.ok
          THEN \* catch: logged, break
               /\ swallowed' = swallowed + 1
               /\ cpc' = "enqueue"
               /\ UNCHANGED <<page, allIds, allCount>>
          ELSE IF result.ids = {}
          THEN \* ids.length === 0: break
               /\ page' = page + 1
               /\ cpc' = IF page < MaxPages THEN "page" ELSE "enqueue"
               /\ UNCHANGED <<allIds, allCount, swallowed>>
          ELSE /\ allIds' = allIds \cup result.ids
               /\ allCount' = allCount + Cardinality(result.ids)
               /\ page' = page + 1
               /\ cpc' = IF page < MaxPages THEN "page" ELSE "enqueue"
               /\ UNCHANGED swallowed
  /\ UNCHANGED <<city, runStatus, runErrors, runDiscovered, tried>>
  /\ UNCHANGED <<wqVars, dbVars, coreVars, envVars, workerVars, verifierVars, exitVars, harnessVars>>

\* scrapeCity: one turn of the page loop
ScrapePage ==
  /\ cpc = "page"
  /\ \E result \in PageResults :
       /\ fetched' = Append(fetched, result)
       /\ IF ~result.ok
          THEN \* catch: logged, break
               /\ swallowed' = swallowed + 1
               /\ cpc' = "enqueue"
               /\ UNCHANGED <<page, allIds, allCount>>
          ELSE IF result.ids = {}
          THEN \* ids.length === 0: break
               /\ cpc' = "enqueue"
               /\ UNCHANGED <<page, allIds, allCount, swallowed>>
          ELSE /\ allIds' = allIds \cup result.ids
               /\ allCount' = allCount + Cardinality(result.ids)
               /\ page' = page + 1
               /\ cpc' = IF page < MaxPages THEN "page" ELSE "enqueue"
               /\ UNCHANGED swallowed
  /\ UNCHANGED <<city, runStatus, runErrors, runDiscovered, tried>>
  /\ UNCHANGED <<wqVars, dbVars, coreVars, envVars, workerVars, verifierVars, exitVars, harnessVars>>

\* scrapeCity: pushListingIds(allIds) when allIds is not empty, return
\* allIds.length; scrapeAllCities: totalDiscovered += count, or the catch that
\* goes on with the next city
Enqueue ==
  /\ cpc = "enqueue"
  /\ IF allIds = {}
     THEN /\ UNCHANGED <<pending, totalDiscovered, runDiscovered, swallowed>>
     ELSE IF ~Up("queue")
     THEN /\ swallowed' = swallowed + 1
          /\ UNCHANGED <<pending, totalDiscovered, runDiscovered>>
     ELSE /\ pending' = [i \in Ids |->
                           IF i \in NewlyAdded(allIds) THEN 1 ELSE pending[i]]
          /\ totalDiscovered' = totalDiscovered + Cardinality(NewlyAdded(allIds))
          /\ runDiscovered' = runDiscovered + allCount
          /\ UNCHANGED swallowed
  /\ NextCity(city + 1)
  /\ UNCHANGED <<runStatus, runErrors>>
  /\ UNCHANGED <<processed, failed, retry, fp, lastSeen, missingQ, verifiedInactive>>
  /\ UNCHANGED <<dbVars, coreVars, envVars, workerVars, verifierVars, exitVars, harnessVars>>

\* scrapeAllCities: db.completeScrapeRun(runId, {..., errorsCount: 0}); its
\* error is rethrown to main(), which exits
CompleteScrapeRun ==
  /\ cpc = "complete"
  /\ IF Up("db")
     THEN /\ runStatus' = "completed"
          /\ runErrors' = 0
          /\ cpc' = "close"
          /\ UNCHANGED <<city, page, allIds, allCount, fetched, runDiscovered,
                         swallowed, tried>>
     ELSE CoordinatorExits
  /\ UNCHANGED <<wqVars, dbVars, coreVars, envVars, workerVars, verifierVars, exitVars, harnessVars>>

\* main(): finally coordinator.close(), then process.exit(0)
CoordinatorClose ==
  /\ cpc = "close"
  /\ creleased' = TRUE
  /\ CoordinatorExits
  /\ UNCHANGED <<wreleased, wheld, vreleased, vheld, harnessVars>>
  /\ UNCHANGED <<wqVars, dbVars, coreVars, envVars, workerVars, verifierVars>>

\* SIGINT / SIGTERM: the handler calls process.exit(0)
CoordinatorSignal ==
  /\ cpc \notin {"off", "exited"}
  /\ CoordinatorExits
  /\ UNCHANGED <<wqVars, dbVars, coreVars, envVars, workerVars, verifierVars, exitVars, harnessVars>>

CoordinatorStep ==
  \/ CoordinatorStarts
  \/ CoordinatorInitialize
  \/ StartScrapeRun
  \/ ScrapePage
  \/ Enqueue
  \/ CompleteScrapeRun
  \/ CoordinatorClose
  \/ CoordinatorSignal

\* the coordinator alone, while collaborators fail and come back
InitDiscovery ==
  /\ InitCommon
  /\ pending = [i \in Ids |-> 0]
  /\ totalDiscovered = 0
  /\ down = {}

NextDiscovery ==
  \/ CoordinatorStep
  \/ \E c \in Collaborators : Outage(c) \/ Recover(c)

SpecDiscovery == InitDiscovery /\ [][NextDiscovery]_vars

\* ------------------------------------------- the ends of the processes
\* start(): popListingId threw; the catch logs and waits randomDelay(5000, 10000)
PopFails(w) ==
  /\ pc[w] = "pop"
  /\ ~Up("queue")
  /\ Goto(w, "backoff")
  /\ UNCHANGED <<wqVars, dbVars, coreVars, envVars, verifierVars, coordVars, exitVars, harnessVars>>
  /\ UNCHANGED <<cur, prop, changed, rc, cnt, eff, fresh, markCount>>

\* start(): the delay is over, the while loop goes round
BackOff(w) ==
  /\ pc[w] = "backoff"
  /\ Goto(w, "pop")
  /\ UNCHANGED <<wqVars, dbVars, coreVars, envVars, verifierVars, coordVars, exitVars, harnessVars>>
  /\ UNCHANGED <<cur, prop, changed, rc, cnt, eff, fresh, markCount>>

\* main(): start() returned; finally worker.close(), then process.exit(0)
WorkerClose(w) ==
  /\ pc[w] = "stopped"
  /\ Goto(w, "exited")
  /\ wreleased' = [wreleased EXCEPT ![w] = TRUE]
  /\ UNCHANGED <<wheld, vreleased, vheld, creleased, harnessVars>>
  /\ UNCHANGED <<wqVars, dbVars, coreVars, envVars, verifierVars, coordVars>>
  /\ UNCHANGED <<cur, prop, changed, rc, cnt, eff, fresh, markCount>>

\* SIGINT / SIGTERM: the handler calls process.exit(0); stop() is not called
WorkerSignal(w) ==
  /\ pc[w] # "exited"
  /\ Goto(w, "exited")
  /\ wheld' = [wheld EXCEPT ![w] = pc[w] \notin {"pop", "backoff", "stopped"}]
  /\ UNCHANGED <<wreleased, vreleased, vheld, creleased, harnessVars>>
  /\ UNCHANGED <<wqVars, dbVars, coreVars, envVars, verifierVars, coordVars>>
  /\ UNCHANGED <<cur, prop, changed, rc, cnt, eff, fresh, markCount>>

WorkerMain(w) ==
  \/ PopFails(w)
  \/ BackOff(w)
  \/ WorkerClose(w)
  \/ WorkerSignal(w)

\* start(): popFromMissingQueue threw; the catch logs and waits
VerifierPopFails ==
  /\ vpc = "vpop"
  /\ ~Up("queue")
  /\ vpc' = "vbackoff"
  /\ UNCHANGED <<wqVars, dbVars, coreVars, envVars, workerVars, coordVars, exitVars, harnessVars>>
  /\ UNCHANGED <<vcur, vmissing, vstatus, vcnt, veff, vruns>>

\* start(): the delay is over, the while loop goes round
VerifierBackOff ==
  /\ vpc = "vbackoff"
  /\ vpc' = "vpop"
  /\ UNCHANGED <<wqVars, dbVars, coreVars, envVars, workerVars, coordVars, exitVars, harnessVars>>
  /\ UNCHANGED <<vcur, vmissing, vstatus, vcnt, veff, vruns>>

\* main(): start() returned; finally verifier.close(), then process.exit(0)
VerifierClose ==
  /\ vpc = "stopped"
  /\ vpc' = "exited"
  /\ vreleased' = TRUE
  /\ UNCHANGED <<wreleased, wheld, vheld, creleased, harnessVars>>
  /\ UNCHANGED <<wqVars, dbVars, coreVars, envVars, workerVars, coordVars>>
  /\ UNCHANGED <<vcur, vmissing, vstatus, vcnt, veff, vruns>>

\* main(): start() threw; the catch block calls process.exit(1)
VerifierFatal ==
  /\ vpc = "fatal"
  /\ vpc' = "exited"
  /\ UNCHANGED <<wqVars, dbVars, coreVars, envVars, workerVars, coordVars, exitVars, harnessVars>>
  /\ UNCHANGED <<vcur, vmissing, vstatus, vcnt, veff, vruns>>

\* SIGINT / SIGTERM: the handler calls process.exit(0); stop() is not called
VerifierSignal ==
  /\ vpc \notin {"off", "exited"}
  /\ vpc' = "exited"
  /\ vheld' = (vpc \in {"probe", "vUpdateLastSeen", "vMarkInactive", "vNotify",
                        "vUpdateMeta"})
  /\ UNCHANGED <<wreleased, wheld, vreleased, creleased, harnessVars>>
  /\ UNCHANGED <<wqVars, dbVars, coreVars, envVars, workerVars, coordVars>>
  /\ UNCHANGED <<vcur, vmissing, vstatus, vcnt, veff, vruns>>

VerifierMain ==
  \/ VerifierPopFails
  \/ VerifierBackOff
  \/ VerifierClose
  \/ VerifierFatal
  \/ VerifierSignal

\* identifier 1 was just discovered and is pending; the other identifiers
\* were processed on an earlier day and have not been seen since
InitShutdown ==
  /\ InitProcesses
  /\ pending = [i \in Ids |-> IF i = 1 THEN 1 ELSE 0]
  /\ totalDiscovered = NumIds
  /\ down = {}
  /\ processed = Ids \ {1}
  /\ failed = [i \in Ids |-> "none"]
  /\ retry = [i \in Ids |-> 0]
  /\ fp = [i \in Ids |-> IF i = 1 THEN NoFingerprint
            ELSE Fingerprint(Listing(content[i]))]
  /\ lastSeen = [i \in Ids |-> IF i = 1 THEN "none" ELSE "stale"]
  /\ missingQ = [i \in Ids |-> 0]
  /\ verifiedInactive = {}
  /\ snapshots = [i \in Ids |->
                   IF i = 1 THEN <<>>
                   ELSE <<CalculateChecksum(Listing(content[i]))>>]
  /\ meta = [i \in Ids |->
              IF i = 1 THEN NoMeta
              ELSE UpdatePropertyMetadata(NoMeta, "active", content[i], TRUE)]
  /\ coreIngest = [i \in Ids |-> IF i # 1 /\ apiKey THEN 1 ELSE 0]
  /\ coreInactive = [i \in Ids |-> 0]
  /\ markCount = [i \in Ids |-> IF i = 1 THEN 0 ELSE 1]

\* the workers and the verifier as processes, with signals, while
\* collaborators fail and come back
NextShutdown ==
  \/ \E w \in Workers : WorkerStep(w) \/ WorkerMain(w)
  \/ VerifierStep
  \/ VerifierMain
  \/ \E c \in Collaborators : Outage(c) \/ Recover(c)

SpecShutdown == InitShutdown /\ [][NextShutdown]_vars

\* the same, where the loops of the workers and of the verifier keep running
\* (signals and recoveries may or may not come)
FairShutdown ==
  /\ SpecShutdown
  /\ \A w \in Workers :
       WF_vars(WorkerStep(w) \/ PopFails(w) \/ BackOff(w) \/ WorkerClose(w))
  /\ WF_vars(VerifierStep \/ VerifierPopFails \/ VerifierBackOff
               \/ VerifierClose \/ VerifierFatal)

\* ------------------------------------------ the Change Detector on its own
\* processListing's change detection (fetch, hasPropertyChanged, send,
\* storePropertySnapshot, calculateChecksum and storeSnapshot) for one listing,
\* identifier 1, fetched again and again while its fields change or stay
DetectorPrices == {800, 250000}
Titles == {"Bilocale", "Trilocale"}
Descriptions == {"luminoso", "da ristrutturare"}

DetectorGoto(label) ==
  /\ dpc' = label
  /\ UNCHANGED <<record, clock, calls>>

\* fetchPropertyDetail: the page is parsed into a Property whose scrapedAt is
\* the time of the parse; null when the portal does not answer
DetectorFetch ==
  /\ dpc = "fetch"
  /\ clock < MaxFetches
  /\ IF Up("portal")
     THEN /\ \E price \in DetectorPrices, title \in Titles,
                description \in Descriptions :
               record' = Property(price, title, description, clock + 1)
          /\ clock' = clock + 1
          /\ dpc' = "hasChanged"
          /\ UNCHANGED calls
     ELSE DetectorGoto("fetch")
  /\ UNCHANGED <<wqVars, dbVars, coreVars, envVars, workerVars, verifierVars,
                 coordVars, exitVars, queueTestVars, scraperVars>>

\* const hasChanged = await this.queue.hasPropertyChanged(id, property)
DetectorHasChanged ==
  /\ dpc = "hasChanged"
  /\ IF ~Up("queue") THEN DetectorGoto("fetch")
     ELSE /\ calls' = Append(calls, [property |-> record,
                                     answer |-> HasPropertyChanged(1, record),
                                     cached |-> FALSE])
          /\ dpc' = IF HasPropertyChanged(1, record) THEN "send" ELSE "fetch"
          /\ UNCHANGED <<record, clock>>
  /\ UNCHANGED <<wqVars, dbVars, coreVars, envVars, workerVars, verifierVars,
                 coordVars, exitVars, queueTestVars, scraperVars>>

\* sendToCoreService(payload); when it throws the identifier is requeued and
\* fetched again
DetectorSend ==
  /\ dpc = "send"
  /\ \E thrown \in BOOLEAN :
       /\ SendToCoreService(1, FALSE, thrown)
       /\ DetectorGoto(IF thrown THEN "fetch" ELSE "cache")
  /\ UNCHANGED <<wqVars, dbVars, apiKey, envVars, workerVars, verifierVars,
                 coordVars, exitVars, queueTestVars, scraperVars>>

\* queue.storePropertySnapshot(id, property): the fingerprint is cached
DetectorCache ==
  /\ dpc = "cache"
  /\ IF ~Up("queue")
     THEN DetectorGoto("fetch") /\ UNCHANGED fp
     ELSE /\ fp' = [fp EXCEPT ![1] = Fingerprint(record)]
          /\ calls' = [calls EXCEPT ![Len(calls)].cached = TRUE]
          /\ dpc' = "store"
          /\ UNCHANGED <<record, clock>>
  /\ UNCHANGED <<pending, processed, failed, retry, lastSeen, missingQ,
                 verifiedInactive, totalDiscovered>>
  /\ UNCHANGED <<dbVars, coreVars, envVars, workerVars, verifierVars,
                 coordVars, exitVars, queueTestVars, scraperVars>>

\* calculateChecksum(property), db.storeSnapshot(id, property, checksum)
DetectorStore ==
  /\ dpc = "store"
  /\ IF ~Up("db") THEN UNCHANGED snapshots
     ELSE snapshots' = [snapshots EXCEPT ![1] =
                          Append(@, CalculateChecksum(record))]
  /\ DetectorGoto("fetch")
  /\ UNCHANGED <<wqVars, meta, coreVars, envVars, workerVars, verifierVars,
                 coordVars, exitVars, queueTestVars, scraperVars>>

DetectorStep ==
  \/ DetectorFetch
  \/ DetectorHasChanged
  \/ DetectorSend
  \/ DetectorCache
  \/ DetectorStore

\* nothing is known of the listing, and only the Change Detector runs
InitChangeDetector ==
  /\ InitNothingProcessed
  /\ InitPipeline
  /\ apiKey
  /\ pending = [i \in Ids |-> 0]
  /\ totalDiscovered = 0
  /\ down = {}
  /\ dpc = "fetch"
  /\ record = Listing(1)
  /\ clock = 0
  /\ calls = <<>>
  /\ QueueTestIdle
  /\ ScraperIdle

NextChangeDetector ==
  \/ DetectorStep
  \/ \E c \in Collaborators : Outage(c) \/ Recover(c)

SpecChangeDetector == InitChangeDetector /\ [][NextChangeDetector]_vars

\* ------------------------------------------------------ the queue test
\* testQueue: pushListingId and popListingId on the test queue, which starts
\* empty; the model lets the test go on with any pushes and pops
\* popListingId(timeout): one of the pending identifiers, null when there is
\* none after the timeout
PopResults ==
  IF \A i \in Ids : pending[i] = 0 THEN {NoId}
  ELSE {i \in Ids : pending[i] > 0}

\* await queue.pushListingId(x)
TestPush(x) ==
  /\ Len(qlog) < MaxOps
  /\ pending' = [i \in Ids |-> IF i \in NewlyAdded({x}) THEN 1 ELSE pending[i]]
  /\ totalDiscovered' = totalDiscovered + Cardinality(NewlyAdded({x}))
  /\ qlog' = Append(qlog, [op |-> "push", id |-> x,
                           empty |-> \A i \in Ids : pending[i] = 0])
  /\ UNCHANGED <<processed, failed, retry, fp, lastSeen, missingQ, verifiedInactive>>
  /\ UNCHANGED <<dbVars, coreVars, envVars, workerVars, verifierVars,
                 coordVars, exitVars, detectorVars, scraperVars>>

\* mutant: the pop returns an identifier and leaves it in the pending list
TestPop_LeavesIdentifier ==
  /\ Len(qlog) < MaxOps
  /\ \E id \in PopResults :
       qlog' = Append(qlog, [op |-> "pop", id |-> id, empty |-> id = NoId])
  /\ UNCHANGED <<wqVars, dbVars, coreVars, envVars, workerVars, verifierVars,
                 coordVars, exitVars, detectorVars, scraperVars>>

\* const id = await queue.popListingId(1)
TestPop ==
  /\ Len(qlog) < MaxOps
  /\ \E id \in PopResults :
       /\ pending' = [i \in Ids |-> IF i = id THEN pending[i] - 1 ELSE pending[i]]
       /\ qlog' = Append(qlog, [op |-> "pop", id |-> id, empty |-> id = NoId])
  /\ UNCHANGED <<processed, failed, retry, fp, lastSeen, missingQ,
                 verifiedInactive, totalDiscovered>>
  /\ UNCHANGED <<dbVars, coreVars, envVars, workerVars, verifierVars,
                 coordVars, exitVars, detectorVars, scraperVars>>

\* new RedisQueue('immobiliare-test'), initialize(): an empty queue
InitQueueTest ==
  /\ InitNothingProcessed
  /\ InitPipeline
  /\ apiKey
  /\ pending = [i \in Ids |-> 0]
  /\ totalDiscovered = 0
  /\ down = {}
  /\ DetectorIdle
  /\ ScraperIdle
  /\ qlog = <<>>

NextQueueTest ==
  \/ \E x \in Ids : TestPush(x)
  \/ TestPop

SpecQueueTest == InitQueueTest /\ [][NextQueueTest]_vars

\* ------------------------------------------- ImmobiliareScraper (the CLI)
\* scrapePage: the number of properties parsed from the page, or an error
ScrapePageError == MaxPerPage + 1
ScrapePageResults == 0..MaxPerPage \cup {ScrapePageError}

ScraperFrame ==
  UNCHANGED <<wqVars, dbVars, coreVars, envVars, workerVars, verifierVars,
              coordVars, exitVars, detectorVars, queueTestVars>>

\* scrapeCities: the head of for (const city of cities): the break at the
\* overall limit, or the call scrapeCity(city, ..., limit - allProperties.length)
ScrapeCitiesLoop ==
  /\ spc = "cities"
  /\ IF scity > NumCities \/ (limit # NoLimit /\ allProps >= limit)
     THEN /\ spc' = "done"
          /\ UNCHANGED <<cityLimit, spage, cityProps, returned>>
     ELSE /\ spc' = "pages"
          /\ cityLimit' = IF limit # NoLimit THEN limit - allProps ELSE NoLimit
          /\ spage' = 1
          /\ cityProps' = 0
          /\ returned' = 0
  /\ UNCHANGED <<limit, scity, allProps, sfetches>>
  /\ ScraperFrame

\* scrapeCity: the head of for (page = 1; page <= maxPages; page++): the break
\* at the limit
ScrapeCityLoop ==
  /\ spc = "pages"
  /\ IF spage > MaxPages \/ (cityLimit # NoLimit /\ cityProps >= cityLimit)
     THEN spc' = "slice"
     ELSE spc' = "scrapePage"
  /\ UNCHANGED <<limit, cityLimit, scity, spage, cityProps, allProps, returned,
                 sfetches>>
  /\ ScraperFrame

\* scrapeCity: const properties = await this.scrapePage(url, page); an empty
\* page and an error end the loop
ScraperScrapePage ==
  /\ spc = "scrapePage"
  /\ sfetches' = sfetches + 1
  /\ \E result \in ScrapePageResults :
       IF result = ScrapePageError \/ result = 0
       THEN /\ spc' = "slice"
            /\ UNCHANGED <<spage, cityProps>>
       ELSE /\ cityProps' = cityProps + result
            /\ spage' = spage + 1
            /\ spc' = "pages"
  /\ UNCHANGED <<limit, cityLimit, scity, allProps, returned>>
  /\ ScraperFrame

\* mutant: the properties collected are returned without the slice
ScrapeCityReturn_NoSlice ==
  /\ spc = "slice"
  /\ returned' = cityProps
  /\ allProps' = allProps + cityProps
  /\ scity' = scity + 1
  /\ spc' = "cities"
  /\ UNCHANGED <<limit, cityLimit, spage, cityProps, sfetches>>
  /\ ScraperFrame

\* scrapeCity: return limit ? allProperties.slice(0, limit) : allProperties;
\* scrapeCities: allProperties.push(...properties)
ScrapeCityReturn ==
  /\ spc = "slice"
  /\ LET final == IF cityLimit # NoLimit /\ cityLimit < cityProps
                  THEN cityLimit ELSE cityProps
     IN /\ returned' = final
        /\ allProps' = allProps + final
  /\ scity' = scity + 1
  /\ spc' = "cities"
  /\ UNCHANGED <<limit, cityLimit, spage, cityProps, sfetches>>
  /\ ScraperFrame

\* scrapeCities is called with a limit, or with none
InitScraper ==
  /\ InitNothingProcessed
  /\ InitPipeline
  /\ apiKey
  /\ pending = [i \in Ids |-> 0]
  /\ totalDiscovered = 0
  /\ down = {}
  /\ DetectorIdle
  /\ QueueTestIdle
  /\ spc = "cities"
  /\ limit \in {NoLimit} \cup 1..MaxLimit
  /\ cityLimit = NoLimit
  /\ scity = 1
  /\ spage = 1
  /\ cityProps = 0
  /\ allProps = 0
  /\ returned = 0
  /\ sfetches = 0

NextScraper ==
  \/ ScrapeCitiesLoop
  \/ ScrapeCityLoop
  \/ ScraperScrapePage
  \/ ScrapeCityReturn

SpecScraper == InitScraper /\ [][NextScraper]_vars

\* ================================================================ claims

\* ---------------------------------------------------------------- C1
\* C1: with NumWorkers Detail Consumers draining a pending list seeded with
\* the NumIds unique identifiers, no identifier is ever marked processed
\* twice, whatever the interleaving, the failures and the redeliveries; and
\* in a run where every collaborator call succeeds no identifier is failed
\* and, once the pending list is drained and every worker is back in its
\* loop (or has left it), every identifier was marked processed exactly once.
C1_MarkedProcessedExactlyOnce ==
  /\ \A i \in Ids : markCount[i] <= 1
  /\ outages = 0 => \A i \in Ids : failed[i] = "none"
  /\ ( /\ outages = 0
       /\ \A i \in Ids : pending[i] = 0
       /\ \A w \in Workers : pc[w] \in {"pop", "stopped"} )
     => \A i \in Ids : markCount[i] = 1 /\ i \in processed

\* the queue is drained with no failure, each worker having processed an
\* identifier
C1_DrainedByBothWorkers ==
  /\ outages = 0
  /\ \A i \in Ids : pending[i] = 0
  /\ \A w \in Workers : pc[w] \in {"pop", "stopped"} /\ cnt[w].processed = 1
  /\ \A i \in Ids : markCount[i] = 1

\* ---------------------------------------------------------------- C2
\* C2: when two workers hold the same identifier with the same fetched
\* record, sendToCoreService, storePropertySnapshot and db.storeSnapshot are
\* each executed by at most one of them.
C2_NoDuplicateSideEffects ==
  \A w1, w2 \in Workers :
    ( /\ w1 # w2
      /\ pc[w1] \notin {"pop", "stopped"}
      /\ pc[w2] \notin {"pop", "stopped"}
      /\ cur[w1] = cur[w2]
      /\ prop[w1] # NoProperty
      /\ prop[w1] = prop[w2] )
    => /\ ~(eff[w1].sends > 0 /\ eff[w2].sends > 0)
       /\ ~(eff[w1].caches > 0 /\ eff[w2].caches > 0)
       /\ ~(eff[w1].stores > 0 /\ eff[w2].stores > 0)

\* ---------------------------------------------------------------- C3
\* C3: an identifier is in the failed set only after the worker requeued it
\* MaxAttempts times, and an identifier in the failed set is not pending.
C3_FailedAfterMaxAttemptsRequeues ==
  \A i \in Ids :
    failed[i] # "none" => retry[i] = MaxAttempts /\ pending[i] = 0

\* ---------------------------------------------------------------- C4
\* C4: a worker increments its failed counter (and marks the identifier
\* failed) only when the identifier's retries are exhausted; in particular a
\* fetch that returned null is requeued while the retry count is below 3.
C4_FailedCounterOnlyAfterRetries ==
  [][\A w \in Workers :
       cnt'[w].failed > cnt[w].failed => retry[cur[w]] >= MaxAttempts]_vars

\* ---------------------------------------------------------------- C5
\* C5: the verifier is on processVerification's inactive branch only when
\* the probe confirmed the absence (404); every other answer leaves the item
\* active.
C5_InactiveOnlyOnConfirmedAbsence ==
  vpc \in {"vMarkInactive", "vNotify", "vUpdateMeta"} => vstatus = HttpNotFound

\* ---------------------------------------------------------------- C6
\* C6: while the queue, the Core Service and the store answer, a
\* processVerification of a stale item whose probe reported it absent ends
\* with the identifier in the verified-inactive set, markPropertyInactive
\* invoked exactly once, and the metadata row 'inactive' with the price
\* cleared.
C6_StaleAbsentItemRetired ==
  [][( /\ down = {}
       /\ vpc \in {"vMarkInactive", "vNotify", "vUpdateMeta"}
       /\ vpc' = "vpop" )
     => /\ vcur \in verifiedInactive'
        /\ veff.marks = 1
        /\ veff.notifies = 1
        /\ apiKey => coreInactive'[vcur] >= 1
        /\ meta'[vcur].exists
        /\ meta'[vcur].current_status = "inactive"
        /\ meta'[vcur].current_price = NoProperty
        /\ vcnt'.inactive = vcnt.inactive + 1]_vars

\* a stale item was verified absent and retired, the Core Service told once
C6_ItemRetired ==
  /\ down = {}
  /\ apiKey
  /\ vcnt.inactive = 1
  /\ \E i \in verifiedInactive :
       /\ meta[i].current_status = "inactive"
       /\ meta[i].current_price = NoProperty
       /\ coreInactive[i] = 1

\* ---------------------------------------------------------------- C7
\* C7: a processListing that started on an identifier with no prior state
\* (not processed, no cached fingerprint, no metadata, no snapshot) and
\* fetched the record leaves, when it returns, metadata with scrape_count 1,
\* change_count 1 and change_rate 1.0, exactly one snapshot row, and has
\* called sendToCoreService exactly once; and while every collaborator call
\* succeeds no processListing reaches its failure paths.
C7_NewItemProcessed ==
  [][\A w \in Workers :
       /\ ( /\ fresh[w]
            /\ pc[w] = "updateMeta"
            /\ pc'[w] = "pop" )
          => /\ meta'[cur[w]].exists
             /\ meta'[cur[w]].scrape_count = 1
             /\ meta'[cur[w]].change_count = 1
             /\ meta'[cur[w]].change_rate = RateScale
             /\ meta'[cur[w]].current_price = prop[w]
             /\ Len(snapshots'[cur[w]]) = 1
             /\ eff[w].sends = 1
             /\ eff[w].caches = 1
             /\ eff[w].stores = 1
             /\ apiKey => coreIngest'[cur[w]] >= 1
       /\ outages = 0
          => pc[w] \notin {"noData", "getRetry", "requeue", "markFailed"}]_vars

\* a new identifier was processed: metadata (1, 1, 1.0), one snapshot, one
\* ingest call
C7_NewItemStored ==
  \E i \in Ids :
    /\ outages = 0
    /\ apiKey
    /\ i \in processed
    /\ meta[i].scrape_count = 1
    /\ meta[i].change_count = 1
    /\ meta[i].change_rate = RateScale
    /\ Len(snapshots[i]) = 1
    /\ coreIngest[i] = 1

C9_ChangeRateConsistent ==
  \A i \in Ids :
    LET row == meta[i]
        err == row.change_rate * row.scrape_count - row.change_count * RateScale
    IN /\ 0 <= row.change_count
       /\ row.change_count <= row.scrape_count
       /\ row.scrape_count = 0 => row.change_rate = 0
       /\ 2 * err <= row.scrape_count
       /\ -2 * err <= row.scrape_count

\* a row written by a worker and then by the verifier
C9_RowUpdatedByWorkerAndVerifier ==
  \E i \in Ids :
    /\ meta[i].current_status = "inactive"
    /\ meta[i].scrape_count = 2
    /\ meta[i].change_count = 1
    /\ meta[i].change_rate = RateScale \div 2

\* --------------------------------------------------------------- C10
\* C10: whenever no worker holds an identifier and it is not pending, its
\* snapshot rows are at most its scrape_count.
C10_SnapshotsAtMostScrapes ==
  \A i \in Ids :
    ( /\ pending[i] = 0
      /\ \A w \in Workers : pc[w] \in {"pop", "stopped"} \/ cur[w] # i )
    => Len(snapshots[i]) <= meta[i].scrape_count

\* --------------------------------------------------------------- C11
\* C11: every identifier that is marked processed eventually has its
\* metadata row written, also when db.updatePropertyMetadata failed on the
\* attempt that marked it and the identifier was redelivered.
C11_ProcessedGetsMetadata ==
  \A i \in Ids : (i \in processed) ~> meta[i].exists

\* --------------------------------------------------------------- C12
\* C12: a failed call to the Core Service enters the retry/fail path in
\* both consumers: a worker whose sendToCoreService threw goes to its catch
\* block (requeueWithRetry or markFailed), and a verification whose
\* markPropertyInactive threw ends with the identifier back in the missing
\* queue or recorded in the failed set.
C12_IngestionFailureRetried ==
  [][/\ \A w \in Workers :
          (pc[w] = "send" /\ pc'[w] \notin {"send", "cache"})
            => pc'[w] = "getRetry"
     /\ (vpc = "vNotify" /\ vpc' = "vpop")
          => \/ missingQ'[vcur] > missingQ[vcur]
             \/ failed'[vcur] # "none"]_vars

\* --------------------------------------------------------------- C13
\* C13: without the API key nothing is posted to the Core Service and
\* sendToCoreService never throws, whether the Core Service is reachable or
\* not: the worker goes on from the send to storePropertySnapshot, nothing
\* is requeued or failed because of it, and a changed item's processListing
\* returns with the snapshot stored, the identifier marked processed, its
\* last-seen refreshed and its metadata row written.
C13_MissingKeySkipsIngestion ==
  [][~apiKey =>
     /\ coreIngest' = coreIngest
     /\ coreInactive' = coreInactive
     /\ \A w \in Workers :
          /\ (pc[w] = "send" /\ pc'[w] # "send")
               => /\ pc'[w] = "cache"
                  /\ retry' = retry
                  /\ failed' = failed
                  /\ pending' = pending
          /\ down \subseteq {"core"}
               => pc'[w] \notin {"noData", "getRetry", "requeue", "markFailed"}
          /\ (pc[w] = "updateMeta" /\ pc'[w] = "pop" /\ changed[w])
               => /\ eff[w].sends = 1
                  /\ eff[w].stores = 1
                  /\ Len(snapshots[cur[w]]) >= 1
                  /\ cur[w] \in processed
                  /\ lastSeen[cur[w]] = "fresh"
                  /\ meta'[cur[w]].exists
                  /\ down \subseteq {"core"}
                       => retry[cur[w]] = 0 /\ failed[cur[w]] = "none"]_vars

\* no API key and the Core Service unreachable: a changed item was processed
\* to the end and nothing was posted
C13_ProcessedWithoutKey ==
  /\ ~apiKey
  /\ down = {"core"}
  /\ \E i \in processed :
       /\ meta[i].exists
       /\ Len(snapshots[i]) = 1
       /\ lastSeen[i] = "fresh"
       /\ retry[i] = 0
       /\ failed[i] = "none"
       /\ coreIngest[i] = 0

\* --------------------------------------------------------------- C14
\* C14: a page error while scraping an area goes to that area's enqueue, the
\* identifiers of the area's earlier pages are pushed to the pending list,
\* and scrapeAllCities goes on with the next area: when it reaches
\* completeScrapeRun every area was tried.
C14_AreaErrorDoesNotAbortRun ==
  [][/\ (cpc = "page" /\ cpc' \notin {"page", "exited"}) => cpc' = "enqueue"
     /\ (cpc = "enqueue" /\ cpc' \notin {"enqueue", "exited"})
          => /\ Up("queue")
                  => \A k \in 1..Len(fetched) :
                       \A i \in fetched[k].ids : pending'[i] > 0
             /\ city' = city + 1
             /\ cpc' = IF city < NumCities THEN "page" ELSE "complete"
             /\ city < NumCities => city + 1 \in tried'
     /\ cpc' \in {"complete", "close"} => tried' = Cities]_vars

\* the first area failed on a later page: its earlier identifiers are
\* pending and the second area is being scraped
C14_SecondAreaAfterError ==
  /\ cpc = "page"
  /\ city = 2
  /\ outages = 0
  /\ swallowed = 1
  /\ \E i \in Ids : pending[i] > 0

\* --------------------------------------------------------------- C15
\* C15: when the coordinator process has exited, its Run is not left in
\* status 'running': it is 'completed' or 'failed' (or was never created).
C15_RunReachesTerminalStatus ==
  cpc = "exited" => runStatus \in {"none", "completed", "failed"}

\* --------------------------------------------------------------- C16
\* C16: a completed Run's errors_count is the number of page and area
\* errors that were caught and swallowed during the pass.
C16_ErrorsCountReflectsFailures ==
  runStatus = "completed" => runErrors = swallowed

\* --------------------------------------------------------------- C17
\* C17: in scrapeCity no page is fetched after a page that yielded no
\* identifier (or failed), and exactly the identifiers of the pages fetched
\* before it are handed to pushListingIds.
C17_EmptyPageEndsPagination ==
  [][LET earlier == UNION {fetched[k].ids : k \in 1..Len(fetched)}
     IN /\ Len(fetched') = Len(fetched) + 1
             => \A k \in 1..Len(fetched) : fetched[k].ok /\ fetched[k].ids # {}
        /\ cpc = "enqueue" => allIds = earlier
        /\ (cpc = "enqueue" /\ cpc' \notin {"enqueue", "exited"} /\ Up("queue"))
             => \A i \in Ids :
                  pending'[i] > 0 <=> (pending[i] > 0 \/ i \in earlier)]_vars

\* page 1 gave every identifier, page 2 gave none: the pagination stopped
\* before the last page with page 1's identifiers to enqueue
C17_StoppedAfterEmptyPage ==
  /\ cpc = "enqueue"
  /\ Len(fetched) = 2
  /\ Len(fetched) < MaxPages
  /\ fetched[1] = [ok |-> TRUE, ids |-> Ids]
  /\ fetched[2] = [ok |-> TRUE, ids |-> {}]
  /\ allIds = Ids

\* --------------------------------------------------------------- C18
\* C18: a worker or verifier that exits on a signal leaves no identifier
\* dequeued and unaccounted for: a worker's in-flight identifier is
\* processed, failed or pending again, and a verifier's in-flight identifier
\* is verified inactive, seen again or back in the missing queue.
C18_SignalLeavesNoItemDequeued ==
  /\ \A w \in Workers :
       (pc[w] = "exited" /\ wheld[w])
         => \/ cur[w] \in processed
            \/ failed[cur[w]] # "none"
            \/ pending[cur[w]] > 0
  /\ (vpc = "exited" /\ vheld)
       => \/ vcur \in verifiedInactive
          \/ lastSeen[vcur] = "fresh"
          \/ missingQ[vcur] > 0

\* --------------------------------------------------------------- C19
\* C19: if from some point on the Work Queue stays unreachable, every worker
\* and the verifier eventually leave their loops.
C19_UnreachableQueueStopsConsumers ==
  <>[](~Up("queue"))
    => <>( /\ \A w \in Workers : pc[w] \in {"stopped", "exited"}
           /\ vpc \in {"off", "stopped", "fatal", "exited"} )

\* --------------------------------------------------------------- C20
\* C20: a coordinator, worker or verifier process that has exited released
\* its queue and store connections with close() before.
C20_ConnectionsReleasedBeforeExit ==
  /\ \A w \in Workers : pc[w] = "exited" => wreleased[w]
  /\ vpc = "exited" => vreleased
  /\ cpc = "exited" => creleased

\* --------------------------------------------------------------- C21
\* C21: whatever a step inside processListing or processVerification does
\* (a failed fetch, ingest, store, or a failed queue call inside the catch
\* block), unless a signal kills the process the worker is afterwards still
\* inside processListing or back at its loop's popListingId, and the verifier
\* still inside processVerification or back at popFromMissingQueue: the loop
\* is never left.
C21_ItemErrorNeverAbortsLoop ==
  [][ /\ \A w \in Workers :
           ( /\ pc[w] \in {"isProcessed", "fetch", "noData", "hasChanged",
                           "send", "cache", "store", "markProcessed",
                           "updateLastSeen", "updateMeta", "getRetry",
                           "requeue", "markFailed"}
             /\ ~WorkerSignal(w) )
           => pc'[w] \in {"isProcessed", "fetch", "noData", "hasChanged",
                          "send", "cache", "store", "markProcessed",
                          "updateLastSeen", "updateMeta", "getRetry",
                          "requeue", "markFailed", "pop"}
      /\ ( /\ vpc \in {"probe", "vUpdateLastSeen", "vMarkInactive", "vNotify",
                       "vUpdateMeta"}
           /\ ~VerifierSignal )
           => vpc' \in {"probe", "vUpdateLastSeen", "vMarkInactive", "vNotify",
                        "vUpdateMeta", "vpop"}
    ]_vars

\* identifier 1 was dequeued and an error left processListing's catch block
\* (it is neither pending, processed nor failed, and no worker holds it),
\* the verifier's processVerification of a stale identifier ended in its
\* catch block (nothing was counted as verified), and both loops are back at
\* their pop
C21_LoopsGoOnAfterErrors ==
  /\ \A w \in Workers : pc[w] = "pop"
  /\ pending[1] = 0 /\ 1 \notin processed /\ failed[1] = "none"
  /\ vpc = "vpop"
  /\ vcnt.verified = 0
  /\ \E i \in Ids : /\ lastSeen[i] = "stale"
                    /\ missingQ[i] = 0
                    /\ i \notin verifiedInactive

\* --------------------------------------------------------------- C22
\* C22: when isProcessed(id) answers true at the start of processListing(id),
\* processListing returns to the loop at once and nothing is changed: the
\* Work Queue (pending list, processed set, failed set, retry counters,
\* fingerprints, last-seen), the Durable Store (snapshots, metadata), the
\* Core Service and the worker's counters are as before.
C22_ProcessedItemSkipped ==
  [][ \A w \in Workers :
        ( /\ pc[w] = "isProcessed"
          /\ pc'[w] # "isProcessed"
          /\ Up("queue")
          /\ IsProcessed(cur[w]) )
        => /\ pc'[w] = "pop"
           /\ UNCHANGED <<wqVars, dbVars, coreVars, cnt, markCount>>
    ]_vars

\* identifier i was marked processed by an attempt that failed afterwards
\* (it has no metadata row) and was requeued; the requeued copy was dequeued
\* and its processListing is over, with i still without a metadata row
C22_RequeuedCopySkipped ==
  \E i \in Ids :
    /\ i \in processed
    /\ markCount[i] = 1
    /\ ~meta[i].exists
    /\ retry[i] = 1
    /\ failed[i] = "none"
    /\ pending[i] = 0
    /\ down = {}
    /\ \A w \in Workers : pc[w] \in {"pop", "stopped"}

\* --------------------------------------------------------------- C23
\* C23: a step of the coordinator (no worker moves) adds at most one copy of
\* an identifier to the pending list, adds none of an identifier that is
\* already pending or in the processed-dedup set, and the count of
\* identifiers added is the number of identifiers that became pending.
C23_EnqueueIdempotent ==
  [][ pc' = pc =>
        /\ \A i \in Ids :
             /\ pending'[i] <= pending[i] + 1
             /\ (pending[i] > 0 \/ i \in processed) => pending'[i] = pending[i]
        /\ totalDiscovered' - totalDiscovered =
             Cardinality({i \in Ids : pending'[i] > pending[i]})
    ]_vars

\* identifier 1 is in the processed-dedup set and identifier 2 is pending
\* once, both added by pushListingIds, and the queue answers: handing both
\* identifiers to pushListingIds again adds nothing
C23_KnownIdsEnqueuedAgain ==
  /\ 1 \in processed
  /\ pending = [i \in Ids |-> IF i = 2 THEN 1 ELSE 0]
  /\ totalDiscovered = 2
  /\ Up("queue")
  /\ NewlyAdded({1, 2}) = {}
  /\ \A w \in Workers : pc[w] = "pop"

\* --------------------------------------------------------------- C24
\* C24: when hasPropertyChanged is called for a Property whose price, title
\* and description are those of the previous call's Property, and the
\* previous call answered unchanged or its Property's fingerprint was cached
\* by storePropertySnapshot, the answer is unchanged, whatever scrapedAt is;
\* and Properties with the same price, title and description have the same
\* fingerprint and the same checksum.
C24_FingerprintStable ==
  /\ \A k \in 2..Len(calls) :
       ( /\ calls[k].property.price = calls[k-1].property.price
         /\ calls[k].property.title = calls[k-1].property.title
         /\ calls[k].property.description = calls[k-1].property.description
         /\ (calls[k-1].cached \/ ~calls[k-1].answer) )
       => ~calls[k].answer
  /\ \A j, k \in 1..Len(calls) :
       ( /\ calls[k].property.price = calls[j].property.price
         /\ calls[k].property.title = calls[j].property.title
         /\ calls[k].property.description = calls[j].property.description )
       => /\ Fingerprint(calls[k].property) = Fingerprint(calls[j].property)
          /\ CalculateChecksum(calls[k].property)
               = CalculateChecksum(calls[j].property)

\* the first call found the listing new and its fingerprint was cached; the
\* second call, for a Property fetched later with the same price, title and
\* description, answered unchanged
C24_SecondCallUnchanged ==
  /\ Len(calls) = 2
  /\ calls[1].answer /\ calls[1].cached
  /\ calls[2].property.price = calls[1].property.price
  /\ calls[2].property.title = calls[1].property.title
  /\ calls[2].property.description = calls[1].property.description
  /\ calls[2].property.scrapedAt # calls[1].property.scrapedAt
  /\ ~calls[2].answer

\* C24 as stated: of two consecutive hasPropertyChanged calls with the same
\* price, title and description the second answers unchanged
C24_SecondCallAlwaysUnchanged ==
  \A k \in 2..Len(calls) :
    ( /\ calls[k].property.price = calls[k-1].property.price
      /\ calls[k].property.title = calls[k-1].property.title
      /\ calls[k].property.description = calls[k-1].property.description )
    => ~calls[k].answer

\* --------------------------------------------------------------- C25
\* C25: a popListingId that follows a pushListingId(x) made on an empty
\* queue returns x, and at every moment x was returned by pops at most as
\* often as it was pushed.
C25_QueueRoundTrip ==
  /\ \A k \in 1..(Len(qlog) - 1) :
       (qlog[k].op = "push" /\ qlog[k].empty /\ qlog[k+1].op = "pop")
         => qlog[k+1].id = qlog[k].id
  /\ \A x \in Ids : \A n \in 1..Len(qlog) :
       Cardinality({k \in 1..n : qlog[k].op = "pop" /\ qlog[k].id = x})
         <= Cardinality({k \in 1..n : qlog[k].op = "push" /\ qlog[k].id = x})

\* identifier 1 was pushed on the empty queue, the next pop returned it and
\* the pop after that returned nothing
C25_PushedPoppedThenEmpty ==
  /\ Len(qlog) = 3
  /\ qlog[1] = [op |-> "push", id |-> 1, empty |-> TRUE]
  /\ qlog[2].op = "pop" /\ qlog[2].id = 1
  /\ qlog[3].op = "pop" /\ qlog[3].id = NoId

\* --------------------------------------------------------------- C26
\* C26: with a positive limit, after every step a scrapeCity call has
\* returned at most its limit and scrapeCities has collected at most the
\* overall limit, and no step calls scrapePage once the properties collected
\* for the city have reached the limit.
C26_LimitRespected ==
  [][ /\ cityLimit' # NoLimit => returned' <= cityLimit'
      /\ limit' # NoLimit => allProps' <= limit'
      /\ sfetches' # sfetches
           => ~(cityLimit # NoLimit /\ cityProps >= cityLimit)
    ]_vars

\* with limit 3 the first city's pages 1 and 2 gave two properties each: no
\* third page was fetched, three properties were returned and no other city
\* was scraped
C26_SlicedToLimit ==
  /\ spc = "done"
  /\ limit = 3
  /\ cityProps = 4
  /\ returned = 3
  /\ allProps = 3
  /\ sfetches = 2
  /\ scity = 2

\* --------------------------------------------------------------- C27
\* C27: the listings' content does not change, so each identifier has one
\* change to detect (it is new): whenever that change was detected and
\* recorded in the fast store (a fingerprint is cached) and no worker is
\* working on the identifier or will (it is not pending), the Durable Store
\* holds exactly one snapshot row for it.
C27_OneSnapshotPerChange ==
  \A i \in Ids :
    ( /\ fp[i] # NoFingerprint
      /\ pending[i] = 0
      /\ \A w \in Workers : pc[w] \in {"pop", "stopped"} \/ cur[w] # i )
    => Len(snapshots[i]) = 1

\* --------------------------------------------------------------- C28
\* C28: every step that ends a processing attempt of an identifier (a
\* processListing that got past the isProcessed check returns) leaves the
\* identifier's metadata row with scrape_count one higher, and with
\* change_count one higher if the attempt detected a change and unchanged
\* otherwise.
C28_MetadataUpdatedEveryAttempt ==
  [][ \A w \in Workers :
        ( /\ pc[w] \in {"fetch", "noData", "hasChanged", "send", "cache",
                        "store", "markProcessed", "updateLastSeen",
                        "updateMeta", "getRetry", "requeue", "markFailed"}
          /\ pc'[w] = "pop" )
        => /\ meta'[cur[w]].scrape_count = meta[cur[w]].scrape_count + 1
           /\ meta'[cur[w]].change_count =
                meta[cur[w]].change_count + ChangeIncrement(changed[w])
    ]_vars

\* --------------------------------------------------------------- C29
\* C29: the step processVerification takes after verifyProperty answered
\* that the listing exists changes nothing but the identifier's last-seen
\* (refreshed when the queue answers) and the verifier's counters: the
\* verified-inactive set, the Core Service, the metadata rows, the snapshots
\* and the rest of the queue are as before.
C29_StillPresentOnlyRefreshesLastSeen ==
  [][ (vpc = "vUpdateLastSeen" /\ vpc' # "vUpdateLastSeen")
        => /\ UNCHANGED <<verifiedInactive, coreIngest, coreInactive, meta,
                          snapshots, pending, processed, failed, retry, fp,
                          missingQ>>
           /\ \A i \in Ids : i # vcur => lastSeen'[i] = lastSeen[i]
           /\ Up("queue") => lastSeen'[vcur] = "fresh"
    ]_vars

\* a stale identifier was verified as still active: its last-seen is fresh,
\* it is not verified inactive, the Core Service was not told and its
\* metadata row is the one the worker wrote
C29_VerifiedStillActive ==
  \E i \in Ids :
    /\ vpc = "vpop"
    /\ vcnt.active = 1
    /\ lastSeen[i] = "fresh"
    /\ i \notin verifiedInactive
    /\ coreInactive[i] = 0
    /\ meta[i] = UpdatePropertyMetadata(NoMeta, "active", content[i], TRUE)

\* --------------------------------------------------------------- C30
\* C30: when scrapeCity hands the identifiers collected for an area to
\* pushListingIds and returns, the list holds each identifier once (its
\* length is the number of distinct identifiers collected) and the Run's
\* discovered count grows by the number of distinct identifiers, or not at
\* all when nothing was enqueued.
C30_AreaIdsDeduplicated ==
  [][ (cpc = "enqueue" /\ cpc' \in {"page", "complete"})
        => /\ allCount = Cardinality(allIds)
           /\ runDiscovered' - runDiscovered \in {0, Cardinality(allIds)}
    ]_vars

C32_DurableWriteAfterFastStore ==
  [][ \A i \in Ids :
        /\ snapshots'[i] # snapshots[i]
             => \E w \in Workers :
                  /\ pc[w] = "store" /\ cur[w] = i
                  /\ eff[w].caches = 1
                  /\ fp[i] # NoFingerprint
        /\ meta'[i] # meta[i]
             => \/ \E w \in Workers :
                     /\ pc[w] = "updateMeta" /\ cur[w] = i
                     /\ i \in processed
                     /\ lastSeen[i] = "fresh"
                \/ /\ vpc = "vUpdateMeta" /\ vcur = i
                   /\ veff.marks = 1
                   /\ i \in verifiedInactive
    ]_vars

\* identifier 1 was processed by a worker (fingerprint cached, snapshot
\* row, processed, metadata active) and another identifier was retired by
\* the verifier (verified inactive, metadata inactive)
C32_BothWritersWrote ==
  /\ fp[1] # NoFingerprint /\ Len(snapshots[1]) = 1
  /\ 1 \in processed /\ meta[1].current_status = "active"
  /\ \E i \in Ids : i \in verifiedInactive /\ meta[i].current_status = "inactive"

\* --------------------------------------------------------------- C33
\* C33: the step in which sendToCoreService throws, and every step of the
\* catch block that follows, leave the cached fingerprints, the snapshot
\* rows, the processed set and the metadata rows unchanged; and after the
\* failed send the fetched Property still differs from the cached
\* fingerprint, so that hasPropertyChanged answers changed again when the
\* identifier is redelivered.
C33_FailedSendLeavesNoTrace ==
  [][ \A w \in Workers :
        /\ ( \/ pc[w] = "send" /\ pc'[w] = "getRetry"
             \/ pc[w] \in {"getRetry", "requeue", "markFailed"} /\ pc'[w] # pc[w] )
             => UNCHANGED <<fp, snapshots, processed, meta, coreIngest>>
        /\ (pc[w] = "send" /\ pc'[w] = "getRetry")
             => HasPropertyChanged(cur[w], Listing(prop[w]))'
    ]_vars

\* the Core Service is the one collaborator that failed: an identifier was
\* requeued once, redelivered, found changed again (no fingerprint was
\* cached) and the worker is about to forward it again
C33_RedeliveredDetectedAgain ==
  \E w \in Workers :
    /\ pc[w] = "send"
    /\ changed[w]
    /\ retry[cur[w]] = 1
    /\ fp[cur[w]] = NoFingerprint
    /\ snapshots[cur[w]] = <<>>
    /\ apiKey
    /\ down = {"core"}

\* --------------------------------------------------------------- C34
\* C34: no identifier is lost: an identifier that was dequeued (in the
\* seeded queue: every identifier no longer pending) and that no worker
\* holds in flight is in the pending list, in the processed set or in the
\* failed set.
C34_NoIdentifierLost ==
  \A i \in Ids :
    (\A w \in Workers : pc[w] \in {"pop", "stopped"} \/ cur[w] # i)
      => \/ pending[i] > 0
         \/ i \in processed
         \/ failed[i] # "none"

\* --------------------------------------------------------------- C35
\* C35: the terminal marks of an identifier exclude each other: no
\* identifier is both in the processed set and in the failed set, and no
\* identifier of the processed set is back in the pending list.
C35_TerminalMarksExclusive ==
  \A i \in Ids :
    i \in processed => failed[i] = "none" /\ pending[i] = 0

\* --------------------------------------------------------------- C36
\* C36: an identifier confirmed inactive is reported at most once over the
\* verifier's runs: findMissingProperties at a run's start selects no
\* identifier of the verified-inactive set, markVerifiedInactive is not
\* done a second time for an identifier (so that no second
\* markPropertyInactive follows), and the Core Service receives at most one
\* inactive notice per identifier.
C36_InactiveReportedOnce ==
  [][ /\ vpc = "start" => vmissing' \cap verifiedInactive = {}
      /\ (vpc = "vMarkInactive" /\ vpc' = "vNotify") => vcur \notin verifiedInactive
      /\ \A i \in Ids : coreInactive'[i] <= 1
    ]_vars

\* --------------------------------------------------------------- C37
\* C37: runDiscovered is the total that completeScrapeRun writes both as
\* the Run's discovered count and as its new count.  With every area that
\* is enqueued it grows by the number of identifiers that pushListingIds
\* actually added to the pending list (the new count is the sum of the
\* return values) and by the number of identifiers collected for the area
\* (the discovered count).
C37_RunCountsNewAndDiscovered ==
  [][ (cpc = "enqueue" /\ cpc' \notin {"enqueue", "exited"} /\ allIds # {})
        => /\ runDiscovered' - runDiscovered = totalDiscovered' - totalDiscovered
           /\ runDiscovered' - runDiscovered = allCount
    ]_vars

C39_ChecksumDistinguishesChanges ==
  ( /\ dpc = "store"
    /\ outages = 0
    /\ snapshots[1] # <<>> )
    => CalculateChecksum(record) # snapshots[1][Len(snapshots[1])]

====
